---- MODULE Spec2Model ----
(***************************************************************************)
(* Event logger (polling revision): header directory with wear levelling,  *)
(* ring log of 64-byte records, two-stage channel change detector.         *)
(* The model follows the last revision of the firmware (setup, loop,       *)
(* read_data_header, write_data_header, record_data_page_write_mode,       *)
(* detect_pin_changes).                                                    *)
(***************************************************************************)
EXTENDS Integers, Sequences, FiniteSets, TLC

\* ------------------------------------------------------------------------
\* Program constants
\* ------------------------------------------------------------------------
AddrSpace == 65536      \* uint16_t address arithmetic
RecWidth == 64          \* 0x0040, one log record
SlotStride == 128       \* 0x0080, one header slot per EEPROM page
SlotStart == 65408      \* 0xff80, first slot of the rotation
SlotStop == 3968        \* 0x0f80, first address below the header region
NPins == 16             \* pins per MCP23017 bank
AllHigh == 65535        \* 0b1111111111111111, all pins pulled high
LogChunk == 31          \* 0x1f, index of the last record of a /log response

\* ------------------------------------------------------------------------
\* Bounds of the model
\* ------------------------------------------------------------------------
MaxAppends == 3         \* appends per run of the nominal specification
MaxTicks == 1           \* clock seconds that may pass in a run
MaxResets == 1          \* power cycles per run
MaxPolls == 5           \* polling passes per run of the detector specification
MaxK == 2               \* records appended beyond the ring capacity
MaxFaults == 2          \* write errors reported per run
MaxFaultAppends == 2    \* appends per run of the specification with faults
MaxWrapAppends == 2     \* appends per run of the in-service specification
MaxRotAppends == 3      \* appends per run of the rotation specification
MaxTimeAppends == 2     \* appends per run of the specification of the clock requests
MaxNamed == 1           \* lines that carry a name given by a request
MaxLogAppends == 34     \* appends per run of the specification of the recent-log read
MaxIrqs == 3             \* line changes per run of the interrupt-driven specification
MaxCodecWrites == 2      \* header writes per run of the specification of the slot image
MaxReqClears == 1       \* clear requests per run of the specification of the dispatch

\* Clock reading at the start of a run (2014-05-13 16:53:20 UTC, 0x53724E00)
\* and the second before it, in which the replayed history was written.
T0 == 1400000000
TPast == T0 - 1

\* ------------------------------------------------------------------------
\* Integer helpers (C integer semantics)
\* ------------------------------------------------------------------------
U16(x) == x % AddrSpace

Pow2(p) == CASE p = 0 -> 1 [] p = 1 -> 2 [] p = 2 -> 4 [] p = 3 -> 8
             [] p = 4 -> 16 [] p = 5 -> 32 [] p = 6 -> 64 [] p = 7 -> 128
             [] p = 8 -> 256 [] p = 9 -> 512 [] p = 10 -> 1024
             [] p = 11 -> 2048 [] p = 12 -> 4096 [] p = 13 -> 8192
             [] p = 14 -> 16384 [] p = 15 -> 32768

\* (x >> pin) & 0b1
Bit(x, pin) == (x \div Pow2(pin)) % 2

RECURSIVE XorFrom(_, _, _)
XorFrom(x, y, pin) ==
    IF pin = NPins THEN 0
    ELSE ((Bit(x, pin) + Bit(y, pin)) % 2) * Pow2(pin) + XorFrom(x, y, pin + 1)

\* x ^ y on uint16_t
Xor16(x, y) == XorFrom(x, y, 0)

\* x |= (1 << pin)
SetBit(x, pin) == IF Bit(x, pin) = 1 THEN x ELSE x + Pow2(pin)

\* A clearing that leaves the bit as it is.
ClearBit_Noop(x, pin) == x

\* x &= ~(1 << pin)
ClearBit(x, pin) == IF Bit(x, pin) = 1 THEN x - Pow2(pin) ELSE x

\* ------------------------------------------------------------------------
\* The two EEPROMs.  ee_h maps a header slot address to its 8 bytes, ee_d
\* maps the start address of a 64-byte write to the record written there.
\* An address that is not in the map is in the erased state (all 0xFF).
\* ------------------------------------------------------------------------
ErasedBlock == <<255, 255, 255, 255, 255, 255, 255, 255>>

ErasedRec == [kind |-> "erased"]

\* Channel names: 40 bytes at 0x0080 * x of the header EEPROM, x = 0..31.
\* A name is held as [pad, fill, text]: pad bytes of value fill, then the
\* text.  An erased name is 40 bytes 0xFF; a written one is the text
\* right-aligned in 40 characters by spaces ("%40s").
NameStride == 128
NameWidth == 40
NLines == 32
BankStride == 2048
ErasedName == [pad |-> NameWidth, fill |-> 255, text |-> << >>]
ErasedNames == [x \in 0..(NLines - 1) |-> ErasedName]

\* addr = 0x0080 * pin + (bank ? 0x0800 : 0)
NameAddr(bank, pin) == NameStride * pin + (IF bank # 0 THEN BankStride ELSE 0)

\* ee_h.readBlock(addr, buf_prog, 40) on the channel names
cnl_readBlock(names, addr) == names[addr \div NameStride]
GarbledRec == [kind |-> "garbled"]

\* ee_h.readBlock(addr, dh_block, 8)
ee_h_readBlock(eh, addr) == IF addr \in DOMAIN eh THEN eh[addr] ELSE ErasedBlock

\* Content of a slot after the first p bytes of blk have been written to it.
TornBlock(old, blk, p) == [i \in 1..8 |-> IF i <= p THEN blk[i] ELSE old[i]]

\* ee_h.writeBlock(addr, dh_block, 8): p bytes reach the device (p = 8 when
\* the write completes, p = 0 when it fails, 0 < p < 8 when power is lost).
ee_h_writeBlock(eh, addr, blk, p) ==
    LET new == TornBlock(ee_h_readBlock(eh, addr), blk, p) IN
    IF p = 0 THEN eh
    ELSE IF addr \in DOMAIN eh THEN [eh EXCEPT ![addr] = new]
    ELSE (addr :> new) @@ eh

\* Two 64-byte writes at distinct start addresses share bytes.
Overlap(x, y) ==
    LET d == (y - x) % AddrSpace IN
    d # 0 /\ (d < RecWidth \/ d > AddrSpace - RecWidth)

\* ee_d.readBlock(addr, tmpbuff, 0x40)
ee_d_readBlock(ed, addr) ==
    IF addr \in DOMAIN ed THEN ed[addr]
    ELSE IF \E y \in DOMAIN ed : Overlap(addr, y) THEN GarbledRec
    ELSE ErasedRec

\* ee_d.writeBlock(addr, data, 0x40), completed: the 64 bytes from addr on
\* hold data, and a record that shared bytes with them is no longer whole.
ee_d_writeBlock(ed, addr, data) ==
    LET hit == {y \in DOMAIN ed : Overlap(addr, y)} IN
    IF hit = {}
    THEN IF addr \in DOMAIN ed THEN [ed EXCEPT ![addr] = data]
         ELSE (addr :> data) @@ ed
    ELSE [y \in DOMAIN ed \cup {addr} |->
            IF y = addr THEN data
            ELSE IF y \in hit THEN GarbledRec ELSE ed[y]]

\* ------------------------------------------------------------------------
\* 32-bit values are kept as two 16-bit halves [hi, lo].
\* ------------------------------------------------------------------------
\* 0xffffffff - t.unixtime
InvTime(ut) == [hi |-> 65535 - (ut \div 65536), lo |-> 65535 - (ut % 65536)]

\* x <= y on uint32_t
U32Leq(x, y) == x.hi < y.hi \/ (x.hi = y.hi /\ x.lo <= y.lo)

U32Max == [hi |-> 65535, lo |-> 65535]

\* 0xffffffff - x on uint32_t
U32Not(x) == [hi |-> 65535 - x.hi, lo |-> 65535 - x.lo]

\* A clock reading as a uint32_t
U32Of(n) == [hi |-> n \div 65536, lo |-> n % 65536]

\* val = dh_block[0] | dh_block[1] << 8 | dh_block[2] << 16 | dh_block[3] << 24
DecodeKey(blk) == [hi |-> blk[3] + 256 * blk[4], lo |-> blk[1] + 256 * blk[2]]

\* An image that holds newest_addr and oldest_addr high byte first.
EncodeHeader_BigEndianBounds(h) ==
    << h.t.lo % 256, (h.t.lo \div 256) % 256,
       h.t.hi % 256, (h.t.hi \div 256) % 256,
       (h.a \div 256) % 256, h.a % 256,
       (h.b \div 256) % 256, h.b % 256 >>

\* The 8-byte image of a header: key in bytes 0-3, a in 4-5, b in 6-7.
EncodeHeader(h) ==
    << h.t.lo % 256, (h.t.lo \div 256) % 256,
       h.t.hi % 256, (h.t.hi \div 256) % 256,
       h.a % 256, (h.a \div 256) % 256,
       h.b % 256, (h.b \div 256) % 256 >>

\* The header held by an 8-byte block.
DecodeHeader(blk) ==
    [t |-> DecodeKey(blk),
     a |-> blk[5] + 256 * blk[6],
     b |-> blk[7] + 256 * blk[8]]

\* ------------------------------------------------------------------------
\* Header directory.  The operations work on a machine record m with the
\* fields dh, dh_addr, ee_h, ee_d, unixtime (the RTC reading), settled (the
\* settled bits of the bank being polled), up (power is on), and the
\* history fields seq (appends made), commits (slot writes issued), errs
\* (write errors reported), out (events emitted by the running pass) and
\* data (the last record handed to an append).
\* ------------------------------------------------------------------------
read_data_header(m) ==
    [m EXCEPT !.dh = DecodeHeader(ee_h_readBlock(m.ee_h, m.dh_addr))]

\* A cursor that steps over every second slot.
NextSlot_SkipOne(addr) ==
    IF U16(addr - 2 * SlotStride) <= SlotStop THEN SlotStart ELSE U16(addr - 2 * SlotStride)

\* A cursor that does not return to the start of the region.
NextSlot_NoWrap(addr) == U16(addr - SlotStride)

\* dh_addr -= 0x0080; if (dh_addr == 0x0f80) dh_addr = 0xff80;
NextSlot(addr) ==
    IF U16(addr - SlotStride) = SlotStop THEN SlotStart ELSE U16(addr - SlotStride)

HwOk == [p |-> 8, lost |-> FALSE]
HwFail == [p |-> 0, lost |-> FALSE]

\* A commit that leaves the cursor where it is and writes the slot under it.
write_data_header_SameSlot(m, hw) ==
    LET h == [m.dh EXCEPT !.t = InvTime(m.unixtime)]
    IN  [m EXCEPT !.dh = h,
                  !.ee_h = ee_h_writeBlock(m.ee_h, m.dh_addr, EncodeHeader(h), hw.p),
                  !.commits = m.commits + 1,
                  !.errs = IF hw = HwFail THEN m.errs + 1 ELSE m.errs,
                  !.up = ~hw.lost]

\* hw = [p, lost]: p bytes of the slot write reach the device; lost means
\* that power fails during the write.  p = 8 and ~lost is a completed write,
\* p = 0 and ~lost a write that writeBlock reports as failed.
write_data_header(m, hw) ==
    LET h == [m.dh EXCEPT !.t = InvTime(m.unixtime)]
        addr == NextSlot(m.dh_addr)
    IN  [m EXCEPT !.dh = h,
                  !.dh_addr = addr,
                  !.ee_h = ee_h_writeBlock(m.ee_h, addr, EncodeHeader(h), hw.p),
                  !.commits = m.commits + 1,
                  !.errs = IF hw = HwFail THEN m.errs + 1 ELSE m.errs,
                  !.up = ~hw.lost]

\* ------------------------------------------------------------------------
\* Event log
\* ------------------------------------------------------------------------
\* An append that never moves oldest_addr.
record_data_page_write_mode_NoDiscard(m, data, dw, hw) ==
    LET m1 == read_data_header(m) IN
    IF dw # "ok"
    THEN [m1 EXCEPT !.errs = m1.errs + 1]
    ELSE write_data_header([m1 EXCEPT !.ee_d = ee_d_writeBlock(m1.ee_d, m1.dh.a, data),
                                      !.dh = [m1.dh EXCEPT !.a = U16(m1.dh.a + RecWidth)],
                                      !.seq = m1.seq + 1],
                           hw)

\* An append that writes its record over the newest record of the log.
record_data_page_write_mode_OverNewest(m, data, dw, hw) ==
    LET m1 == read_data_header(m) IN
    IF dw # "ok"
    THEN [m1 EXCEPT !.errs = m1.errs + 1]
    ELSE LET a1 == U16(m1.dh.a + RecWidth)
             b1 == IF a1 = m1.dh.b THEN U16(m1.dh.b + RecWidth) ELSE m1.dh.b
             m2 == [m1 EXCEPT !.ee_d = ee_d_writeBlock(m1.ee_d, U16(m1.dh.a - RecWidth), data),
                              !.dh = [m1.dh EXCEPT !.a = a1, !.b = b1],
                              !.seq = m1.seq + 1]
         IN  write_data_header(m2, hw)

\* dw: "ok" the record write completes, "fail" writeBlock reports an error
\* and nothing was written, "partial" it reports an error after some bytes
\* were written.
record_data_page_write_mode(m, data, dw, hw) ==
    LET m1 == read_data_header(m) IN
    IF dw # "ok"
    THEN IF dw = "partial"
         THEN [m1 EXCEPT !.ee_d = ee_d_writeBlock(m1.ee_d, m1.dh.a, GarbledRec),
                         !.errs = m1.errs + 1]
         ELSE [m1 EXCEPT !.errs = m1.errs + 1]
    ELSE LET a1 == U16(m1.dh.a + RecWidth)
             b1 == IF a1 = m1.dh.b THEN U16(m1.dh.b + RecWidth) ELSE m1.dh.b
             m2 == [m1 EXCEPT !.ee_d = ee_d_writeBlock(m1.ee_d, m1.dh.a, data),
                              !.dh = [m1.dh EXCEPT !.a = a1, !.b = b1],
                              !.seq = m1.seq + 1]
         IN  write_data_header(m2, hw)

\* An iteration that reads the record at the pointer, not the one below it.
WalkStep_ReadAtPointer(w, ed, limit) ==
    IF w.done \/ w.addra = w.addrb THEN [w EXCEPT !.done = TRUE]
    ELSE LET rec == ee_d_readBlock(ed, w.addra)
             a1 == U16(w.addra - RecWidth)
         IN  [w EXCEPT !.addra = a1,
                       !.out = Append(w.out, rec),
                       !.fins = Append(w.fins, w.i = limit \/ a1 = w.addrb),
                       !.i = IF w.i = limit \/ a1 = w.addrb THEN w.i ELSE w.i + 1,
                       !.done = (w.i = limit \/ a1 = w.addrb)]

\* One iteration of the read loop of GET /dump and GET /log.  w = [addra,
\* addrb, out, fins, i, done]; fins holds, for each record sent, whether its
\* chunk carried TCP_FLAGS_FIN_V; limit is 0x1f for /log and -1 (never
\* reached) for /dump.
WalkStep(w, ed, limit) ==
    IF w.done \/ w.addra = w.addrb THEN [w EXCEPT !.done = TRUE]
    ELSE LET rec == ee_d_readBlock(ed, U16(w.addra - RecWidth))
             a1 == U16(w.addra - RecWidth)
         IN  [w EXCEPT !.addra = a1,
                       !.out = Append(w.out, rec),
                       !.fins = Append(w.fins, w.i = limit \/ a1 = w.addrb),
                       !.i = IF w.i = limit \/ a1 = w.addrb THEN w.i ELSE w.i + 1,
                       !.done = (w.i = limit \/ a1 = w.addrb)]

\* n iterations of the read loop, or fewer when the loop ends earlier.
RECURSIVE WalkIter(_, _, _, _)
WalkIter(n, w, ed, limit) ==
    IF n = 0 \/ w.done THEN w
    ELSE IF n = 1 THEN WalkStep(w, ed, limit)
    ELSE LET mid == WalkIter(n - (n \div 2), w, ed, limit) IN
         IF mid.done THEN mid ELSE WalkIter(n \div 2, mid, ed, limit)

\* The pointer of the loop takes at most AddrSpace / RecWidth values, so a
\* loop that has not ended after that many iterations never ends.
WalkRun(a, b, ed, limit) ==
    WalkIter(AddrSpace \div RecWidth,
             [addra |-> a, addrb |-> b, out |-> <<>>, fins |-> <<>>, i |-> 0, done |-> (a = b)],
             ed, limit)

\* Records sent by GET /dump for the header h, newest first.
DumpWalk(h, ed) == WalkRun(h.a, h.b, ed, -1)

\* ------------------------------------------------------------------------
\* Startup scan of setup()
\* ------------------------------------------------------------------------
\* A scan that keeps the first slot scanned among slots of equal key.
ScanStep_KeepFirst(s, eh) ==
    IF ~s.run THEN s
    ELSE LET val == DecodeKey(ee_h_readBlock(eh, s.addr))
             take == U32Leq(val, s.unix_tm_inv) /\ val # s.unix_tm_inv
             addr1 == U16(s.addr - SlotStride)
         IN  [addr |-> addr1,
              unix_tm_inv |-> IF take THEN val ELSE s.unix_tm_inv,
              dh_addr |-> IF take THEN s.addr ELSE s.dh_addr,
              run |-> addr1 > SlotStop]

\* One iteration of the do-while loop.  s = [addr, unix_tm_inv, dh_addr, run]
ScanStep(s, eh) ==
    IF ~s.run THEN s
    ELSE LET val == DecodeKey(ee_h_readBlock(eh, s.addr))
             take == U32Leq(val, s.unix_tm_inv)
             addr1 == U16(s.addr - SlotStride)
         IN  [addr |-> addr1,
              unix_tm_inv |-> IF take THEN val ELSE s.unix_tm_inv,
              dh_addr |-> IF take THEN s.addr ELSE s.dh_addr,
              run |-> addr1 > SlotStop]

RECURSIVE ScanIter(_, _, _)
ScanIter(n, s, eh) ==
    IF n = 0 \/ ~s.run THEN s
    ELSE IF n = 1 THEN ScanStep(s, eh)
    ELSE LET mid == ScanIter(n - (n \div 2), s, eh) IN
         IF ~mid.run THEN mid ELSE ScanIter(n \div 2, mid, eh)

\* The whole scan: addr falls by 0x80 per iteration, so the loop ends within
\* AddrSpace / SlotStride iterations.
HeaderSearch(eh, start) ==
    ScanIter(AddrSpace \div SlotStride,
             [addr |-> SlotStart, unix_tm_inv |-> U32Max, dh_addr |-> start, run |-> TRUE],
             eh)

\* ------------------------------------------------------------------------
\* Channel change detector.  The machine record also carries former and
\* recent, the two history words of the bank being polled.
\* ------------------------------------------------------------------------
\* The record handed to record_data_page_write_mode: time stamp, line and
\* level of the sprintf, and the serial number of the append.
EventRec(m, bank, pin, val0) ==
    [kind |-> "rec", time |-> m.unixtime, bank |-> bank, pin |-> pin,
     name |-> cnl_readBlock(m.cnl, NameAddr(bank, pin)),
     on |-> (val0 = 1), seq |-> m.seq + 1]

\* A loop body without debouncing: the level just read is taken as settled.
PinStep_Unsettled(m, pin, bank, changedBits, dw, hw) ==
    LET val0 == Bit(m.recent, pin) IN
    IF ~m.up THEN m
    ELSE IF Bit(changedBits, pin) = 1 /\ Bit(m.settled, pin) # val0
    THEN LET m1 == [m EXCEPT !.settled = IF val0 = 1 THEN SetBit(m.settled, pin)
                                         ELSE ClearBit(m.settled, pin),
                             !.out = Append(m.out, [bank |-> bank, pin |-> pin,
                                                    on |-> (val0 = 1)])]
         IN  record_data_page_write_mode([m1 EXCEPT !.data = EventRec(m, bank, pin, val0)],
                                         EventRec(m, bank, pin, val0), dw, hw)
    ELSE m

\* A loop body that does not compare the level with the settled bits.
PinStep_NoSettledCheck(m, pin, bank, changedBits, dw, hw) ==
    LET val0 == Bit(m.former, pin) IN
    IF ~m.up THEN m
    ELSE IF Bit(changedBits, pin) = 1 /\ val0 = Bit(m.recent, pin)
    THEN LET m1 == [m EXCEPT !.settled = IF val0 = 1 THEN SetBit(m.settled, pin)
                                         ELSE ClearBit(m.settled, pin),
                             !.out = Append(m.out, [bank |-> bank, pin |-> pin,
                                                    on |-> (val0 = 1)])]
         IN  record_data_page_write_mode([m1 EXCEPT !.data = EventRec(m, bank, pin, val0)],
                                         EventRec(m, bank, pin, val0), dw, hw)
    ELSE m

\* A loop body that appends the event and leaves the settled level as it is.
PinStep_KeepSettled(m, pin, bank, changedBits, dw, hw) ==
    LET val0 == Bit(m.former, pin) IN
    IF ~m.up THEN m
    ELSE IF Bit(changedBits, pin) = 1
            /\ val0 = Bit(m.recent, pin)
            /\ Bit(m.settled, pin) # val0
    THEN LET m1 == [m EXCEPT !.out = Append(m.out, [bank |-> bank, pin |-> pin,
                                                    on |-> (val0 = 1)])]
         IN  record_data_page_write_mode([m1 EXCEPT !.data = EventRec(m, bank, pin, val0)],
                                         EventRec(m, bank, pin, val0), dw, hw)
    ELSE m

\* A body that settles the line without appending its event.
PinStep_NoRecord(m, pin, bank, changedBits, dw, hw) ==
    LET val0 == Bit(m.former, pin) IN
    IF ~m.up THEN m
    ELSE IF Bit(changedBits, pin) = 1
            /\ val0 = Bit(m.recent, pin)
            /\ Bit(m.settled, pin) # val0
    THEN [m EXCEPT !.settled = IF val0 = 1 THEN SetBit(m.settled, pin)
                               ELSE ClearBit(m.settled, pin)]
    ELSE m

\* Body of the for loop for one pin.
PinStep(m, pin, bank, changedBits, dw, hw) ==
    LET val0 == Bit(m.former, pin) IN
    IF ~m.up THEN m
    ELSE IF Bit(changedBits, pin) = 1
            /\ val0 = Bit(m.recent, pin)
            /\ Bit(m.settled, pin) # val0
    THEN LET m1 == [m EXCEPT !.settled = IF val0 = 1 THEN SetBit(m.settled, pin)
                                         ELSE ClearBit(m.settled, pin),
                             !.out = Append(m.out, [bank |-> bank, pin |-> pin,
                                                    on |-> (val0 = 1)])]
         IN  record_data_page_write_mode([m1 EXCEPT !.data = EventRec(m, bank, pin, val0)],
                                         EventRec(m, bank, pin, val0), dw, hw)
    ELSE m

\* A loop that gives up the pass at the first append that fails.
RECURSIVE PinLoop_StopOnError(_, _, _, _, _, _)
PinLoop_StopOnError(m, pin, bank, changedBits, dw, hw) ==
    IF pin = NPins \/ ((dw # "ok" \/ hw = HwFail) /\ m.out # <<>>) THEN m
    ELSE PinLoop_StopOnError(PinStep(m, pin, bank, changedBits, dw, hw),
                             pin + 1, bank, changedBits, dw, hw)

RECURSIVE PinLoop(_, _, _, _, _, _)
PinLoop(m, pin, bank, changedBits, dw, hw) ==
    IF pin = NPins THEN m
    ELSE PinLoop(PinStep(m, pin, bank, changedBits, dw, hw),
                 pin + 1, bank, changedBits, dw, hw)

\* A pass that compares the sample with the recent word, not the former one.
detect_pin_changes_FromRecent(m, bank, tmpbits, dw, hw) ==
    LET changedBits == Xor16(m.recent, tmpbits)
        m1 == [m EXCEPT !.former = m.recent, !.recent = tmpbits]
    IN  IF changedBits # 0 THEN PinLoop(m1, 0, bank, changedBits, dw, hw) ELSE m1

\* detect_pin_changes(mcp) with mcp->getAddr() = bank and readGPIOAB() =
\* tmpbits.  Every storage write of the pass has the outcome dw, hw.
detect_pin_changes(m, bank, tmpbits, dw, hw) ==
    LET changedBits == Xor16(m.former, tmpbits)
        m1 == [m EXCEPT !.former = m.recent, !.recent = tmpbits]
    IN  IF changedBits # 0 THEN PinLoop(m1, 0, bank, changedBits, dw, hw) ELSE m1

\* ------------------------------------------------------------------------
\* State
\* ------------------------------------------------------------------------
VARIABLES
    ee_h,                   \* header EEPROM: slot address -> 8 bytes
    ee_d,                   \* data EEPROM: record address -> record
    unixtime,               \* reading of the battery-backed RTC
    dh,                     \* in-memory DataHeader [t, a, b]
    dh_addr,                \* slot cursor
    mcp00_bits, mcp01_bits, mcp0_settled_bits,  \* bank 0: former, recent, settled
    mcp10_bits, mcp11_bits, mcp1_settled_bits,  \* bank 1
    pin_change_detect_flag, \* set by the timer interrupt
    tick_unserved,          \* history: a tick set the flag and no pass has started since
    irq,                    \* interrupt-driven revision: flags, INT lines, position in handleInterrupt
    ee_busy,                \* guarded revision: an append or a clear is in flight
    pc,                     \* "boot", "idle", "det1" (between the two banks), "hung";
                            \* guarded revision: "append", "clear" (inside the function)
    resp,                   \* records of the last log response, newest first
    seq,                    \* history: number of appends that wrote their record
    commits,                \* history: number of slot writes issued
    resets,                 \* history: number of power cycles
    faults,                 \* history: number of write errors reported
    last,                   \* history: the last operation on the log
    crash,                  \* history: the commit that a power loss interrupted
    durable,                \* history: slot and bounds of the last completed commit
    past,                   \* history: commits made before the run
    timer_isr,              \* function attached to the Timer1 interrupt
    cnl,                    \* header EEPROM, channel names: line index -> 40 bytes
    trace                   \* history: samples fed to and events emitted by the detector

vars == << ee_h, ee_d, unixtime, dh, dh_addr, mcp00_bits, mcp01_bits,
           mcp0_settled_bits, mcp10_bits, mcp11_bits, mcp1_settled_bits,
           pin_change_detect_flag, tick_unserved, irq, ee_busy, pc, resp, seq, commits, resets, faults,
           last, crash, durable, past, timer_isr, cnl, trace >>

storeVars == << ee_h, ee_d >>
hdrVars == << dh, dh_addr >>
detVars == << mcp00_bits, mcp01_bits, mcp0_settled_bits,
              mcp10_bits, mcp11_bits, mcp1_settled_bits >>

\* The DataHeader is allocated without being initialised; setup() loads it
\* before anything reads it.
DhBoot == [t |-> [hi |-> 0, lo |-> 0], a |-> 0, b |-> 0]

NoCrash == [some |-> FALSE]
NoOp == [op |-> "none", n |-> 0, dw |-> "ok", hw |-> HwOk, pre |-> DhBoot,
         data |-> ErasedRec, prevop |-> "none"]
EmptyTrace == [samples |-> <<>>, events |-> <<>>]
NoResp == [op |-> "none", out |-> <<>>, chunks |-> <<>>]

\* ether.httpServerReply_with_flags: one chunk of a response, with or
\* without TCP_FLAGS_FIN_V.
Chunk(body, fin) == [body |-> body, fin |-> fin]
More(body) == Chunk(body, FALSE)
Final(body) == Chunk(body, TRUE)

\* Chunks of a log response: the preamble, then "no data" or the records.
LogChunks(h, w) ==
    << More("txt_header_200") >> \o
    (IF h.a = h.b THEN << Final("no data") >>
     ELSE [i \in 1..Len(w.out) |-> Chunk(w.out[i], w.fins[i])])

AB(h) == <<h.a, h.b>>

\* The header in the slot under the cursor.
SlotHeader == DecodeHeader(ee_h_readBlock(ee_h, dh_addr))

\* The machine record of the current state, polling the given bank.
Mach(bank) ==
    [dh |-> dh, dh_addr |-> dh_addr, ee_h |-> ee_h, ee_d |-> ee_d,
     unixtime |-> unixtime, cnl |-> cnl, up |-> TRUE, seq |-> seq, commits |-> commits,
     errs |-> faults, out |-> <<>>, data |-> ErasedRec,
     former |-> IF bank = 0 THEN mcp00_bits ELSE mcp10_bits,
     recent |-> IF bank = 0 THEN mcp01_bits ELSE mcp11_bits,
     settled |-> IF bank = 0 THEN mcp0_settled_bits ELSE mcp1_settled_bits]

\* ------------------------------------------------------------------------
\* Initial content of the EEPROMs
\* ------------------------------------------------------------------------
\* Both devices as delivered: every byte 0xFF.
NoDurable == [some |-> FALSE]
Durable(slot, h) == [some |-> TRUE, slot |-> slot, hdr |-> << h.a, h.b >>]

ErasedStore == [ee_h |-> <<>>, ee_d |-> <<>>, durable |-> NoDurable, past |-> 0]

\* A device whose log was emptied at address a0 by the provisioning
\* (clear_logs of the earlier revision wrote a = b = 0).
FormattedHeader(a0) == [t |-> InvTime(TPast), a |-> a0, b |-> a0]

FormattedMach(a0) ==
    [dh |-> FormattedHeader(a0), dh_addr |-> SlotStart,
     ee_h |-> (SlotStart :> EncodeHeader(FormattedHeader(a0))), ee_d |-> <<>>,
     unixtime |-> TPast, cnl |-> ErasedNames, up |-> TRUE, seq |-> 0, commits |-> 0,
     errs |-> 0, out |-> <<>>, data |-> ErasedRec,
     former |-> AllHigh, recent |-> AllHigh, settled |-> AllHigh]

\* A formatted device whose log starts one record below the top of the
\* address space, so that the first append wraps newest_addr to 0.
WrapStart == AddrSpace - RecWidth

FormattedStore ==
    [ee_h |-> (SlotStart :> EncodeHeader(FormattedHeader(WrapStart))), ee_d |-> <<>>,
     durable |-> Durable(SlotStart, FormattedHeader(WrapStart)), past |-> 1]

\* The k-th record of the earlier service life of a device; the records of
\* a run are numbered from 1, those of the earlier life end at 0.
PastRec(k) ==
    [kind |-> "rec", time |-> TPast, bank |-> 0, pin |-> 0,
     name |-> ErasedName, on |-> (k % 2 = 0), seq |-> k]

RECURSIVE ReplayIter(_, _)
ReplayIter(n, m) ==
    IF n = 0 THEN m
    ELSE IF n = 1 THEN record_data_page_write_mode(m, PastRec(m.seq + 1), "ok", HwOk)
    ELSE LET mid == ReplayIter(n - (n \div 2), m) IN
         IF mid.up THEN ReplayIter(n \div 2, mid) ELSE mid

\* A device that has been in service: formatted at address 0, it then made
\* ReplayLen appends in the second before the run, which leaves the slot
\* cursor two slots above the end of the rotation.
ReplayLen == (SlotStart - SlotStop) \div SlotStride - 2

InServiceStore ==
    LET m0 == FormattedMach(0)
        m == ReplayIter(ReplayLen, [m0 EXCEPT !.seq = -ReplayLen])
    IN  [ee_h |-> m.ee_h, ee_d |-> m.ee_d, durable |-> Durable(m.dh_addr, m.dh),
         past |-> ReplayLen + 1]

InitStores == {ErasedStore, FormattedStore}

\* Globals of the interrupt-driven revision after a reset: no flag is set,
\* both INT lines are high (portdhistory = 0xff), loop() is not inside
\* handleInterrupt.  cap is what the expander captured for the interrupt it
\* holds; raised tells that the ISR set the flag of the bank being handled
\* since handleInterrupt was entered; n counts the line changes of the run.
NoCapture == [some |-> FALSE, pin |-> 0, val |-> 0]
IrqBoot ==
    [awakenByInterrupt |-> [b \in 0..1 |-> FALSE],
     portdhistory |-> [b \in 0..1 |-> 1],
     cap |-> [b \in 0..1 |-> NoCapture],
     pos |-> "loop", bank |-> 0, pin |-> 0, val |-> 0, raised |-> FALSE, n |-> 0]

\* Values of the globals after a reset (before setup runs).
RamInit ==
    /\ dh = DhBoot
    /\ dh_addr = SlotStart
    /\ mcp00_bits = AllHigh /\ mcp01_bits = AllHigh /\ mcp0_settled_bits = AllHigh
    /\ mcp10_bits = AllHigh /\ mcp11_bits = AllHigh /\ mcp1_settled_bits = AllHigh
    /\ pin_change_detect_flag = 0
    /\ tick_unserved = FALSE
    /\ irq = IrqBoot
    /\ ee_busy = 0
    /\ pc = "boot"
    /\ timer_isr = "none"

\* The device holds one of the stores and the RTC reads one of the clocks.
InitAt(stores, clocks) ==
    /\ \E st \in stores :
          ee_h = st.ee_h /\ ee_d = st.ee_d /\ durable = st.durable /\ past = st.past
    /\ unixtime \in clocks
    /\ cnl = ErasedNames
    /\ RamInit
    /\ resp = NoResp
    /\ seq = 0
    /\ commits = 0
    /\ resets = 0
    /\ faults = 0
    /\ last = NoOp
    /\ crash = NoCrash
    /\ trace = EmptyTrace

InitWith(stores) == InitAt(stores, {T0})

Init == InitWith(InitStores)

\* ------------------------------------------------------------------------
\* Actions
\* ------------------------------------------------------------------------
\* if ((0xffffffff - unix_tm_inv) > t.unixtime): the newest header is later
\* than the reading of the RTC.
ClockBehind(key, ut) == ~U32Leq(U32Not(key), U32Of(ut))

\* setup(): header search, then read_data_header(); Timer1 is attached to
\* beatSYS, and to toggleSYS instead when the clock is behind the header.
Setup ==
    /\ pc = "boot"
    /\ LET s == HeaderSearch(ee_h, dh_addr)
           h == DecodeHeader(ee_h_readBlock(ee_h, s.dh_addr))
       IN  /\ dh_addr' = s.dh_addr
           /\ dh' = h
           /\ timer_isr' = IF ClockBehind(s.unix_tm_inv, unixtime)
                            THEN "toggleSYS" ELSE "beatSYS"
           /\ last' = [NoOp EXCEPT !.op = "setup", !.pre = h]
    /\ pc' = "idle"
    /\ resp' = NoResp
    /\ UNCHANGED << storeVars, unixtime, detVars, pin_change_detect_flag, tick_unserved, irq, ee_busy,
                    seq, commits, resets, faults, crash, durable, past, cnl, trace >>

\* The RTC advances by one second.
Tick ==
    /\ unixtime < T0 + MaxTicks
    /\ unixtime' = unixtime + 1
    /\ resp' = NoResp
    /\ UNCHANGED << storeVars, hdrVars, detVars, pin_change_detect_flag, tick_unserved, irq, ee_busy, pc,
                    seq, commits, resets, faults, last, crash, durable, past, cnl, timer_isr, trace >>

\* beatSYS(): the timer interrupt requests a polling pass.  It runs while
\* Timer1 is attached to it.
BeatSYS ==
    /\ pc \in {"idle", "det1"}
    /\ timer_isr = "beatSYS"
    /\ pin_change_detect_flag = 0
    /\ pin_change_detect_flag' = 1
    /\ tick_unserved' = TRUE
    /\ UNCHANGED << irq, ee_busy >>
    /\ resp' = NoResp
    /\ UNCHANGED << storeVars, unixtime, hdrVars, detVars, pc,
                    seq, commits, resets, faults, last, crash, durable, past, cnl, timer_isr, trace >>

\* beatSYS() while loop() is inside the detection pass: the flag is set
\* already and stays set.
BeatSYSInPass ==
    /\ pc = "det1"
    /\ timer_isr = "beatSYS"
    /\ pin_change_detect_flag' = 1
    /\ tick_unserved' = TRUE
    /\ UNCHANGED << irq, ee_busy >>
    /\ resp' = NoResp
    /\ UNCHANGED << storeVars, unixtime, hdrVars, detVars, pc,
                    seq, commits, resets, faults, last, crash, durable, past, cnl, timer_isr, trace >>

\* Power returns after a loss: the globals have their initial values and
\* setup() runs; the EEPROMs and the RTC keep their content.
PowerOff(eh, ed) ==
    /\ ee_h' = eh
    /\ ee_d' = ed
    /\ dh' = DhBoot
    /\ dh_addr' = SlotStart
    /\ mcp00_bits' = AllHigh /\ mcp01_bits' = AllHigh /\ mcp0_settled_bits' = AllHigh
    /\ mcp10_bits' = AllHigh /\ mcp11_bits' = AllHigh /\ mcp1_settled_bits' = AllHigh
    /\ pin_change_detect_flag' = 0
    /\ tick_unserved' = FALSE
    /\ irq' = IrqBoot
    /\ ee_busy' = 0
    /\ pc' = "boot"
    /\ timer_isr' = "none"
    /\ resets' = resets + 1
    /\ UNCHANGED unixtime

\* A power cycle between two operations.
Reset ==
    /\ pc \in {"idle", "det1", "hung"}
    /\ resets < MaxResets
    /\ PowerOff(ee_h, ee_d)
    /\ last' = [NoOp EXCEPT !.op = "reset"]
    /\ crash' = NoCrash
    /\ resp' = NoResp
    /\ UNCHANGED << seq, commits, faults, durable, past, cnl, trace >>

\* The history of an operation that issued a commit: pre is the header the
\* operation started from.
OpRecord(op, m, pre, dw, hw) ==
    [op |-> op, n |-> Len(m.out), dw |-> dw, hw |-> hw, pre |-> pre, data |-> m.data,
     prevop |-> last.op]

\* Power was lost inside the slot write of a commit that led from the
\* header pre to the header m.dh.
CrashRecord(m, pre, hw) ==
    [some |-> TRUE, prev |-> AB(pre), new |-> AB(m.dh), p |-> hw.p]

\* One call of detect_pin_changes from loop(): bank 0 when the flag is set,
\* then bank 1, after which the flag is cleared.  A run makes at most
\* maxSeq appends.
DetectBank(bank, tmpbits, dw, hw, maxSeq) ==
    /\ pc = IF bank = 0 THEN "idle" ELSE "det1"
    /\ bank = 0 => pin_change_detect_flag = 1
    /\ seq < maxSeq
    /\ LET m == detect_pin_changes(Mach(bank), bank, tmpbits, dw, hw)
           pre == SlotHeader
       IN  /\ seq' = m.seq
           /\ commits' = m.commits
           /\ faults' = m.errs
           /\ durable' = IF m.commits > commits /\ hw.p = 8
                          THEN Durable(m.dh_addr, m.dh) ELSE durable
           /\ last' = IF m.out # <<>> THEN OpRecord("detect", m, pre, dw, hw)
                      ELSE last
           /\ resp' = NoResp
           /\ past' = past
           /\ cnl' = cnl
           /\ IF m.up
              THEN /\ ee_h' = m.ee_h /\ ee_d' = m.ee_d
                   /\ dh' = m.dh /\ dh_addr' = m.dh_addr
                   /\ IF bank = 0
                      THEN /\ mcp00_bits' = m.former /\ mcp01_bits' = m.recent
                           /\ mcp0_settled_bits' = m.settled
                           /\ UNCHANGED << mcp10_bits, mcp11_bits, mcp1_settled_bits,
                                           pin_change_detect_flag >>
                           /\ tick_unserved' = FALSE
                           /\ pc' = "det1"
                      ELSE /\ mcp10_bits' = m.former /\ mcp11_bits' = m.recent
                           /\ mcp1_settled_bits' = m.settled
                           /\ UNCHANGED << mcp00_bits, mcp01_bits, mcp0_settled_bits >>
                           /\ pin_change_detect_flag' = 0
                           /\ UNCHANGED tick_unserved
                           /\ pc' = "idle"
                   /\ crash' = IF m.out # <<>> THEN NoCrash ELSE crash
                   /\ UNCHANGED << unixtime, resets, timer_isr, irq, ee_busy >>
              ELSE /\ PowerOff(m.ee_h, m.ee_d)
                   /\ crash' = CrashRecord(m, pre, hw)

\* A clear that resets both bounds to the start of the log region.
ClearedHeader_Zero(h) == [h EXCEPT !.a = 0, !.b = 0]

\* A clear that commits the bounds as they are.
ClearedHeader_Unchanged(h) == h

\* The bounds a clear request commits: oldest_addr takes the value of the
\* in-memory newest_addr.
ClearedHeader(h) == [h EXCEPT !.b = h.a]

\* GET /clr: dh->b = dh->a; write_data_header();
Clr(hw) ==
    /\ pc = "idle"
    /\ commits < MaxAppends + 1
    /\ LET m == write_data_header([Mach(0) EXCEPT !.dh = ClearedHeader(dh)], hw)
       IN  /\ commits' = m.commits
           /\ faults' = m.errs
           /\ durable' = IF hw.p = 8 THEN Durable(m.dh_addr, m.dh) ELSE durable
           /\ last' = OpRecord("clr", m, dh, "ok", hw)
           /\ IF m.up
              THEN /\ ee_h' = m.ee_h /\ dh' = m.dh /\ dh_addr' = m.dh_addr
                   /\ crash' = NoCrash
                   /\ UNCHANGED << ee_d, unixtime, detVars, pin_change_detect_flag, tick_unserved, irq, ee_busy,
                                   pc, resets, timer_isr >>
              ELSE /\ PowerOff(m.ee_h, m.ee_d)
                   /\ crash' = CrashRecord(m, SlotHeader, hw)
           /\ resp' = IF m.up
                      THEN [op |-> "clr", out |-> <<>>,
                            chunks |-> << More("txt_header_200"), Final("done") >>]
                      ELSE NoResp
    /\ UNCHANGED << seq, past, cnl, trace >>

\* A request that reads the log: read_data_header(), then the read loop.
\* When the loop cannot reach oldest_addr the handler never returns.
ReadLog(op, limit) ==
    /\ pc = "idle"
    /\ LET h == SlotHeader
           w == WalkRun(h.a, h.b, ee_d, limit)
       IN  /\ dh' = h
           /\ resp' = [op |-> op, out |-> w.out, chunks |-> LogChunks(h, w)]
           /\ pc' = IF w.done THEN "idle" ELSE "hung"
    /\ UNCHANGED << storeVars, unixtime, dh_addr, detVars, pin_change_detect_flag, tick_unserved, irq, ee_busy,
                    seq, commits, resets, faults, last, crash, durable, past, cnl, timer_isr, trace >>

\* GET /dump
ReqDump == ReadLog("dump", -1)

\* A read of the recent log that sends every record.
ReqLog_NoLimit == ReadLog("log", -1)

\* GET /log and GET /
ReqLog == ReadLog("log", LogChunk)

\* GET /addr: read_data_header(), then the cursor and the bounds are sent.
ReqAddr ==
    /\ pc = "idle"
    /\ dh' = SlotHeader
    /\ resp' = [op |-> "addr", out |-> << dh_addr, SlotHeader.a, SlotHeader.b >>,
                 chunks |-> << More("txt_header_200"), More(<< "HDER", dh_addr >>),
                               Final(AB(SlotHeader)) >>]
    /\ UNCHANGED << storeVars, unixtime, dh_addr, detVars, pin_change_detect_flag, tick_unserved, irq, ee_busy,
                    pc, seq, commits, resets, faults, last, crash, durable, past, cnl, timer_isr, trace >>

\* ------------------------------------------------------------------------
\* Nominal specification: every storage write completes, and the run is
\* short enough for the clock to keep its reading.
\* ------------------------------------------------------------------------
\* Values of readGPIOAB(): line 0 of bank 0 moves, every other line stays
\* high.
Samples(bank) == IF bank = 0 THEN {AllHigh, AllHigh - 1} ELSE {AllHigh}

Detect0 == \E tmpbits \in Samples(0) :
               DetectBank(0, tmpbits, "ok", HwOk, MaxAppends) /\ UNCHANGED trace

Detect1 == \E tmpbits \in Samples(1) :
               DetectBank(1, tmpbits, "ok", HwOk, MaxAppends) /\ UNCHANGED trace

ReqClr == Clr(HwOk)

Next ==
    \/ Setup
    \/ BeatSYS
    \/ Detect0
    \/ Detect1
    \/ ReqClr
    \/ ReqDump
    \/ ReqLog
    \/ ReqAddr
    \/ Reset

Spec == Init /\ [][Next]_vars

\* ------------------------------------------------------------------------
\* Properties of the nominal specification
\* ------------------------------------------------------------------------
\* The header a log request would load after the step, and the records a
\* full dump would send for it.
SlotHeaderNext == DecodeHeader(ee_h_readBlock(ee_h', dh_addr'))
DumpNext == DumpWalk(SlotHeaderNext, ee_d')

\* A step in which exactly one append wrote its record and committed.
AppendStep == seq' = seq + 1 /\ commits' = commits + 1 /\ pc' # "boot"

\* A step of the clear request that completed.
ClearStep == seq' = seq /\ commits' = commits + 1 /\ pc' # "boot"

\* Number of records between oldest_addr and newest_addr.
LiveCount(h) == (U16(h.a - h.b)) \div RecWidth

\* C7: a full dump starts at newest_addr, reads the record at
\* (pointer - 64) mod 65536 at each step and stops at oldest_addr: it sends
\* ((newest_addr - oldest_addr) mod 65536) / 64 records, the i-th of them
\* being the record of the i-th most recent append, and none when
\* newest_addr = oldest_addr.
C7_WalkNewestFirst ==
    resp.op = "dump" =>
        /\ pc = "idle"
        /\ Len(resp.out) = LiveCount(dh)
        /\ (dh.a = dh.b => resp.out = <<>>)
        /\ \A i \in 1..Len(resp.out) :
              /\ resp.out[i] = ee_d_readBlock(ee_d, U16(dh.a - RecWidth * i))
              /\ resp.out[i].kind = "rec"
              /\ resp.out[i].seq = seq + 1 - i

\* A dump of three records whose addresses wrap around the address space.
C7_Witness ==
    /\ resp.op = "dump"
    /\ Len(resp.out) = 3
    /\ dh.a < dh.b

C9_AppendAfterClear ==
    [][(last.op = "clr" /\ AppendStep) =>
          /\ DumpNext.done
          /\ DumpNext.out = << last'.data >>
          /\ \A y \in DOMAIN ee_d : y # dh.a => (y \in DOMAIN ee_d' /\ ee_d'[y] = ee_d[y])
      ]_vars

\* An append right after a clear, with earlier records still in the device.
C9_Witness ==
    /\ last.op = "detect"
    /\ last.prevop = "clr"
    /\ LiveCount(dh) = 1
    /\ \E y \in DOMAIN ee_d : y # U16(dh.a - RecWidth) /\ ee_d[y].kind = "rec"

\* ------------------------------------------------------------------------
\* Specification with write errors: a record write or a slot write may
\* report an error.
\* ------------------------------------------------------------------------
DataOutcomes == {"ok", "fail", "partial"}

\* The pass that reads tmpbits from the bank emits an event.
Emits(bank, tmpbits) ==
    detect_pin_changes(Mach(bank), bank, tmpbits, "ok", HwOk).out # <<>>

\* A polling pass of bank 0 whose storage writes have an outcome out of
\* dws and hws.
Detect0With(dws, hws) ==
    \E tmpbits \in Samples(0) :
        IF Emits(0, tmpbits)
        THEN \E dw \in dws, hw \in hws :
                /\ (dw # "ok" => hw = HwOk)
                /\ (hw.lost => resets < MaxResets)
                /\ ((dw # "ok" \/ hw = HwFail) => faults < MaxFaults)
                /\ DetectBank(0, tmpbits, dw, hw, MaxFaultAppends)
                /\ UNCHANGED trace
        ELSE DetectBank(0, tmpbits, "ok", HwOk, MaxFaultAppends)
             /\ UNCHANGED trace

ClrWith(hws) ==
    \E hw \in hws :
        /\ (hw.lost => resets < MaxResets)
        /\ (hw = HwFail => faults < MaxFaults)
        /\ Clr(hw)

Detect0F == Detect0With(DataOutcomes, {HwOk, HwFail})

ReqClrF == ClrWith({HwOk, HwFail})

NextFault ==
    \/ Setup
    \/ BeatSYS
    \/ Detect0F
    \/ Detect1
    \/ ReqClrF
    \/ ReqDump

SpecFault == Init /\ [][NextFault]_vars

\* ------------------------------------------------------------------------
\* Specification with power loss: power may fail after any number of bytes
\* of the slot write of a commit.
\* ------------------------------------------------------------------------
PowerLossOutcomes == {[p |-> k, lost |-> TRUE] : k \in 0..8}

Detect0C == Detect0With({"ok"}, {HwOk} \cup PowerLossOutcomes)

ReqClrC == ClrWith({HwOk} \cup PowerLossOutcomes)

NextCrash ==
    \/ Setup
    \/ Tick
    \/ BeatSYS
    \/ Detect0C
    \/ Detect1
    \/ ReqClrC
    \/ ReqDump

SpecCrash == Init /\ [][NextCrash]_vars

\* C1: after a power loss inside the slot write of a commit, the startup
\* scan and read_data_header yield newest_addr and oldest_addr of either
\* the previous committed record or the record being committed.
C1_RecoveryPrevOrNew ==
    (last.op = "setup" /\ crash.some) => AB(dh) \in {crash.prev, crash.new}

\* A step in which an append found that its record write failed.
FailedAppendStep ==
    last' # last /\ last'.op = "detect" /\ last'.dw # "ok" /\ pc' # "boot"

\* C3: when the record write of an append fails, the slot cursor, every
\* header slot and the in-memory newest_addr and oldest_addr are what they
\* were before the call.
C3_FailedAppendFrame ==
    [][FailedAppendStep =>
          /\ dh_addr' = dh_addr
          /\ ee_h' = ee_h
          /\ commits' = commits
          /\ AB(dh') = AB(dh)
      ]_vars

\* The slot write of the last commit failed and nothing has reloaded or
\* replaced the in-memory header since.
FailedCommitPending ==
    /\ last.op \in {"detect", "clr"}
    /\ last.dw = "ok"
    /\ last.hw = HwFail
    /\ resp = NoResp

\* C4: after a commit whose slot write failed, the next append, clear or
\* log read starts from the in-memory newest_addr and oldest_addr.
C4_MemoryIsBasis ==
    [][FailedCommitPending =>
          /\ (resp'.op = "dump" => AB(dh') = AB(dh))
          /\ ((last' # last /\ last'.op \in {"detect", "clr"}) => AB(last'.pre) = AB(dh))
      ]_vars

\* ------------------------------------------------------------------------
\* Specification of a device in service: the slot rotation is about to
\* reach its lowest slot and to start over at the highest one.
\* ------------------------------------------------------------------------
InitWrap == InitWith({InServiceStore})

Detect0W == \E tmpbits \in Samples(0) :
                DetectBank(0, tmpbits, "ok", HwOk, MaxWrapAppends) /\ UNCHANGED trace

Detect1W == \E tmpbits \in Samples(1) :
                DetectBank(1, tmpbits, "ok", HwOk, MaxWrapAppends) /\ UNCHANGED trace

NextWrap ==
    \/ Setup
    \/ Tick
    \/ BeatSYS
    \/ Detect0W
    \/ Detect1W
    \/ Reset

SpecWrap == InitWrap /\ [][NextWrap]_vars

\* C2: when every commit completed and the clock never went back, the
\* startup scan selects the slot written by the last commit and
\* read_data_header loads the newest_addr and oldest_addr of that commit.
C2_RecoveryLatestCommit ==
    (last.op = "setup" /\ durable.some /\ ~crash.some) =>
        /\ dh_addr = durable.slot
        /\ AB(dh) = durable.hdr

\* ------------------------------------------------------------------------
\* Specification of a long run: the lines of bank 0 keep changing, holding
\* each level for two polling passes, until the log has received more
\* records than the log region has room for.  All 16 lines change together
\* while the log is far from full, line 0 alone changes afterwards.
\* ------------------------------------------------------------------------
\* Record places of the log region.
Capacity == AddrSpace \div RecWidth

InitRing == InitWith({FormattedStore})

\* The lines change when the last two samples agree.
RingSample ==
    IF mcp00_bits # mcp01_bits THEN mcp01_bits
    ELSE IF seq + 2 * NPins <= Capacity THEN AllHigh - mcp01_bits
    ELSE IF Bit(mcp01_bits, 0) = 1 THEN ClearBit(mcp01_bits, 0)
    ELSE SetBit(mcp01_bits, 0)

Detect0R == DetectBank(0, RingSample, "ok", HwOk, Capacity + MaxK) /\ UNCHANGED trace

Detect1R == DetectBank(1, AllHigh, "ok", HwOk, Capacity + MaxK) /\ UNCHANGED trace

NextRing ==
    \/ Setup
    \/ BeatSYS
    \/ Detect0R
    \/ Detect1R
    \/ ReqDump

SpecRing == InitRing /\ [][NextRing]_vars

\* C5 as stated: after capacity + k appends (k >= 1) into an empty log a
\* dump sends exactly capacity records, the last capacity appended, newest
\* first.
C5_RingKeepsCapacity ==
    (resp.op = "dump" /\ seq > Capacity) =>
        /\ Len(resp.out) = Capacity
        /\ \A i \in 1..Capacity : resp.out[i].kind = "rec" /\ resp.out[i].seq = seq + 1 - i

\* C5, amended: after capacity + k appends (k >= 1) into an empty log a
\* dump sends exactly capacity - 1 records, the last capacity - 1 appended,
\* newest first.
C5_RingKeepsCapacityLessOne ==
    (resp.op = "dump" /\ seq > Capacity) =>
        /\ pc = "idle"
        /\ Len(resp.out) = Capacity - 1
        /\ \A i \in 1..(Capacity - 1) :
              resp.out[i].kind = "rec" /\ resp.out[i].seq = seq + 1 - i

\* A dump after capacity + 1 appends or more.
C5_Witness ==
    /\ resp.op = "dump"
    /\ seq > Capacity
    /\ Len(resp.out) > 0

\* C6: a successful append writes its record at the old newest_addr and
\* nowhere else, sets newest_addr to (newest_addr + 64) mod 65536, advances
\* oldest_addr by 64 mod 65536 exactly when the new newest_addr equals
\* oldest_addr, and issues one header commit, which stores the new bounds
\* in the next slot of the rotation.
C6_AppendEffect ==
    [][AppendStep =>
          /\ ee_d_readBlock(ee_d', dh.a) = last'.data
          /\ \A y \in DOMAIN ee_d' : y # dh.a => (y \in DOMAIN ee_d /\ ee_d'[y] = ee_d[y])
          /\ dh'.a = (dh.a + RecWidth) % AddrSpace
          /\ dh'.b = IF dh'.a = dh.b THEN (dh.b + RecWidth) % AddrSpace ELSE dh.b
          /\ commits' = commits + 1
          /\ dh_addr' = NextSlot(dh_addr)
          /\ AB(SlotHeaderNext) = AB(dh')
      ]_vars

\* An append into a full ring: oldest_addr moved with newest_addr.
C6_Witness ==
    /\ last.op = "detect"
    /\ last.pre.b # dh.b
    /\ dh.b = (dh.a + RecWidth) % AddrSpace

\* ------------------------------------------------------------------------
\* Specification of the detector: lines 0 and 1 of bank 0 take any level
\* at each polling pass; the history records the samples of line 0 and the
\* events emitted for it since the reset.
\* ------------------------------------------------------------------------
DetSamples == {AllHigh - x : x \in 0..3}

\* Levels of the events of a pass that concern the line.
IsLine0(e) == e.bank = 0 /\ e.pin = 0
LineEvents(out) ==
    LET sel == SelectSeq(out, IsLine0)
    IN  [i \in 1..Len(sel) |-> sel[i].on]

Detect0D ==
    \E tmpbits \in DetSamples :
        /\ Len(trace.samples) < MaxPolls
        /\ DetectBank(0, tmpbits, "ok", HwOk, 2 * MaxPolls)
        /\ trace' = [samples |-> Append(trace.samples, Bit(tmpbits, 0)),
                     events |-> trace.events \o
                         LineEvents(detect_pin_changes(Mach(0), 0, tmpbits, "ok", HwOk).out)]

Detect1D == DetectBank(1, AllHigh, "ok", HwOk, 2 * MaxPolls) /\ UNCHANGED trace

NextDet ==
    \/ Setup
    \/ BeatSYS
    \/ Detect0D
    \/ Detect1D

SpecDet == Init /\ [][NextDet]_vars

\* C10 as stated: the samples 0,1,1,1,1 of one line, fed to the detector
\* after a reset, yield exactly one event, an OFF->ON event.
C10_GlitchYieldsOn ==
    trace.samples = << 0, 1, 1, 1, 1 >> => trace.events = << TRUE >>

\* C10, amended: every line of the detector starts as settled ON, so the
\* samples 0,1,1,1,1 yield no event (the single low sample is filtered),
\* and the samples 1,0,0,0,0 yield exactly one event, an ON->OFF event.
C10_FreshDetectorIsOn ==
    /\ trace.samples = << 0, 1, 1, 1, 1 >> => trace.events = << >>
    /\ trace.samples = << 1, 0, 0, 0, 0 >> => trace.events = << FALSE >>

\* The detector has been fed 1,0,0,0,0 and has emitted an event.
C10_Witness ==
    /\ trace.samples = << 1, 0, 0, 0, 0 >>
    /\ trace.events # << >>
    /\ mcp0_settled_bits = AllHigh - 1

\* The samples of line 0 never held the same level on two consecutive
\* polling passes.
Bounce ==
    \A i \in 1..(Len(trace.samples) - 1) : trace.samples[i] # trace.samples[i + 1]

\* C11: a line whose samples never hold the same level on two consecutive
\* polling passes produces no event and keeps the settled level it had at
\* the reset, whatever the length of the sequence.
C11_BounceYieldsNothing ==
    Bounce => (trace.events = << >> /\ Bit(mcp0_settled_bits, 0) = 1)

\* The detector has been fed 0,1,0,1,0.
C11_Witness ==
    /\ trace.samples = << 0, 1, 0, 1, 0 >>
    /\ pc = "idle"

\* The records of the log device.
LogRecs == {r \in {ee_d[y] : y \in DOMAIN ee_d} : r.kind = "rec"}

\* r2 is the record that follows r1 among the records of one line.
NextOfLine(r1, r2) ==
    /\ r1.bank = r2.bank /\ r1.pin = r2.pin
    /\ r1.seq < r2.seq
    /\ ~\E r3 \in LogRecs : /\ r3.bank = r1.bank /\ r3.pin = r1.pin
                            /\ r1.seq < r3.seq /\ r3.seq < r2.seq

\* C12: for every line, two consecutive logged events of the line never
\* carry the same level, whatever the samples are.
C12_EventsAlternate ==
    /\ \A r1, r2 \in LogRecs : NextOfLine(r1, r2) => r1.on # r2.on
    /\ \A i \in 1..(Len(trace.events) - 1) : trace.events[i] # trace.events[i + 1]

\* Line 1 has two events in the log.
C12_Witness ==
    \E r1, r2 \in LogRecs : r1.pin = 1 /\ NextOfLine(r1, r2)

\* ------------------------------------------------------------------------
\* Write errors, continued
\* ------------------------------------------------------------------------
\* A step in which a settled bit of bank 0 changed (a reset, which sets
\* every bit, is no such step).
SettledChange0 == mcp0_settled_bits' # mcp0_settled_bits /\ pc' # "boot"

\* C13: with every change of the settled level of a line exactly one record
\* for that line and level is appended durably: the record is in the log
\* device, newest_addr has advanced by one record and the slot under the
\* cursor holds the new bounds.
C13_SettledChangeAppended ==
    [][SettledChange0 =>
          /\ seq' = seq + 1
          /\ last'.data.kind = "rec"
          /\ last'.data.bank = 0 /\ last'.data.pin = 0
          /\ last'.data.on = (Bit(mcp0_settled_bits', 0) = 1)
          /\ ee_d_readBlock(ee_d', dh.a) = last'.data
          /\ dh'.a = U16(dh.a + RecWidth)
          /\ AB(SlotHeaderNext) = AB(dh')
      ]_vars

\* ------------------------------------------------------------------------
\* Specification of polling passes with write errors: lines 0 and 1 of
\* bank 0 take any level, and the storage writes of a pass may fail.
\* ------------------------------------------------------------------------
Detect0P ==
    \E tmpbits \in DetSamples :
        IF Emits(0, tmpbits)
        THEN \E dw \in DataOutcomes, hw \in {HwOk, HwFail} :
                /\ (dw # "ok" => hw = HwOk)
                /\ ((dw # "ok" \/ hw = HwFail) => faults < MaxFaults)
                /\ DetectBank(0, tmpbits, dw, hw, MaxFaultAppends)
                /\ UNCHANGED trace
        ELSE DetectBank(0, tmpbits, "ok", HwOk, MaxFaultAppends)
             /\ UNCHANGED trace

NextPass ==
    \/ Setup
    \/ BeatSYS
    \/ Detect0P
    \/ Detect1
    \/ ReqDump

SpecPass == Init /\ [][NextPass]_vars

\* A step of a polling pass of bank 0 in which an append failed.
FailedPassStep == faults' > faults /\ last'.op = "detect" /\ pc' # "boot"

\* C14: when an append fails during a polling pass, the pass still
\* evaluates every line of the bank (the history words and the settled
\* bits end as in the pass without the failure, and every line that
\* settled on a new level has had its append attempted), the other bank is
\* polled next, and the control loop is not stopped.
C14_FailedAppendDoesNotBlock ==
    [][FailedPassStep =>
          LET ok == detect_pin_changes(Mach(0), 0, mcp01_bits', "ok", HwOk) IN
          /\ mcp00_bits' = ok.former
          /\ mcp01_bits' = ok.recent
          /\ mcp0_settled_bits' = ok.settled
          /\ last'.n = Len(ok.out)
          /\ faults' = faults + Len(ok.out)
          /\ pc' = "det1"
      ]_vars

\* A pass in which lines 0 and 1 both settled and both appends failed.
C14_Witness ==
    /\ last.op = "detect"
    /\ last.n = 2
    /\ (last.dw # "ok" \/ last.hw = HwFail)
    /\ faults >= 2
    /\ pc = "det1"

\* ------------------------------------------------------------------------
\* Specification of a start with a clock that may have lost its time: the
\* RTC reads T0, or a time before the one of the newest header.  Timer1
\* fires as long as the device runs, hence the fairness of its handler.
\* ------------------------------------------------------------------------
TEarly == TPast - 1

InitClock == InitAt({FormattedStore}, {T0, TEarly})

NextClock ==
    \/ Setup
    \/ BeatSYS
    \/ Detect0D
    \/ Detect1D

SpecClock ==
    /\ InitClock
    /\ [][NextClock]_vars
    /\ WF_vars(BeatSYS)

\* setup() found the clock behind the time of the header it loaded.
ClockFaultAtStartup ==
    last.op = "setup" /\ ClockBehind(last.pre.t, unixtime)

\* C15: after a start at which the clock reads earlier than the time of
\* the recovered header, the timer interrupt still requests polling passes.
C15_ClockFaultKeepsPolling ==
    [](ClockFaultAtStartup => <>(pin_change_detect_flag = 1))

\* C16: whatever header the device holds once it is started, the read loop
\* of GET /dump on that header reaches oldest_addr and ends.
C16_DumpWalkEnds ==
    pc # "boot" => DumpWalk(SlotHeader, ee_d).done

\* ------------------------------------------------------------------------
\* Specification of the slot rotation: the device starts erased, formatted
\* or with all slots but the last one of the rotation written; appends and
\* resets follow, the clock keeps its reading.
\* ------------------------------------------------------------------------
InitRot == InitWith({ErasedStore, FormattedStore, InServiceStore})

Detect0T == \E tmpbits \in Samples(0) :
                DetectBank(0, tmpbits, "ok", HwOk, MaxRotAppends) /\ UNCHANGED trace

Detect1T == \E tmpbits \in Samples(1) :
                DetectBank(1, tmpbits, "ok", HwOk, MaxRotAppends) /\ UNCHANGED trace

NextRot ==
    \/ Setup
    \/ BeatSYS
    \/ Detect0T
    \/ Detect1T
    \/ Reset

SpecRot == InitRot /\ [][NextRot]_vars

\* Number of header slots and address of the i-th slot of the rotation.
SlotCount == (SlotStart - SlotStop) \div SlotStride
SlotAt(i) == SlotStart - (i % SlotCount) * SlotStride

\* Header writes of the life of the device: those before the start and the
\* commits since.
HeaderWrites == past + commits

CommitStep == commits' = commits + 1 /\ pc' # "boot"

\* C18: a commit writes a slot other than the one the cursor was on (the
\* slot of the previous commit of the run, or the slot selected by the
\* startup scan) and other than the slot written by the previous commit of
\* the device, and it writes no other slot.
C18_CommitTakesOtherSlot ==
    [][CommitStep =>
          /\ dh_addr' # dh_addr
          /\ durable.some => dh_addr' # durable.slot
          /\ \A x \in DOMAIN ee_h : x # dh_addr' => ee_h'[x] = ee_h[x]
      ]_vars

\* Last slot of the rotation (0x1000) and the addresses of the header slots.
SlotLast == SlotStop + SlotStride
HeaderSlots == {SlotLast + SlotStride * k : k \in 0..(SlotCount - 1)}

\* C19: the slot cursor is always the address of a header slot, and a
\* commit issued with the cursor on the last slot of the rotation writes
\* the slot at the start of the region, 0xff80, and no other (the slot
\* holds the committed bounds when ee_h.writeBlock reported no error).
C19_CursorOnSlots ==
    /\ [](dh_addr \in HeaderSlots)
    /\ [][(CommitStep /\ dh_addr = SlotLast) =>
              /\ dh_addr' = SlotStart
              /\ last'.hw = HwOk =>
                     AB(DecodeHeader(ee_h_readBlock(ee_h', SlotStart))) = AB(dh')
              /\ \A x \in DOMAIN ee_h : x # SlotStart => ee_h'[x] = ee_h[x]
         ]_vars

\* A commit went from the last slot of the rotation to the start of the
\* region.
C19_Witness ==
    /\ pc = "det1"
    /\ last.op = "detect" /\ last.n = 1
    /\ durable.some /\ durable.slot = SlotStart
    /\ dh_addr = SlotStart

\* Every header slot reads erased: no slot was ever written.
AllSlotsErased == \A x \in HeaderSlots : ee_h_readBlock(ee_h, x) = ErasedBlock

\* C20: when every header slot reads erased, setup() completes with an
\* empty log (newest_addr = oldest_addr) and with the slot cursor on the
\* start of the region, 0xff80.
C20_ErasedRecoversAtStart ==
    (last.op = "setup" /\ AllSlotsErased) =>
        /\ pc = "idle"
        /\ dh.a = dh.b
        /\ dh_addr = SlotStart

\* Key held by a slot, and the slots that hold the minimum key.
SlotKey(x) == DecodeKey(ee_h_readBlock(ee_h, x))
MinKeySlots ==
    {x \in HeaderSlots : \A y \in HeaderSlots : U32Leq(SlotKey(x), SlotKey(y))}

\* C21 (as stated): the startup scan selects, among the slots that hold the
\* minimum key, the first one scanned: the one at the highest address.
C21_TieSelectsHighest ==
    last.op = "setup" => \A x \in MinKeySlots : x <= dh_addr

\* C21: the startup scan selects, among the slots that hold the minimum
\* key, the last one scanned: the one at the lowest address.
C21_TieSelectsLowest ==
    last.op = "setup" => (dh_addr \in MinKeySlots /\ \A x \in MinKeySlots : dh_addr <= x)

\* A start with two written slots that hold the minimum key.
C21_Witness ==
    /\ last.op = "setup"
    /\ \E x, y \in MinKeySlots : x # y /\ x \in DOMAIN ee_h /\ y \in DOMAIN ee_h

\* Bounds of an empty log.
IsEmpty(ab) == ab[1] = ab[2]

\* C22: after a power loss inside the slot write of a commit, the header
\* loaded at the next start has newest_addr = oldest_addr only when the log
\* was empty after the last completed commit or is empty in the commit
\* that was interrupted.
C22_NonEmptyNotReportedEmpty ==
    (last.op = "setup" /\ crash.some) =>
        (IsEmpty(AB(dh)) => (IsEmpty(crash.prev) \/ IsEmpty(crash.new)))

\* ------------------------------------------------------------------------
\* Requests on the clock and on the channel names
\* ------------------------------------------------------------------------
\* Characters are their byte values.
IsDigit(c) == c >= 48 /\ c <= 57

\* atoi on the characters of a field: the value of the leading digits.
RECURSIVE AtoiFrom(_, _, _)
AtoiFrom(cs, i, acc) ==
    IF i > Len(cs) \/ ~IsDigit(cs[i]) THEN acc
    ELSE AtoiFrom(cs, i + 1, 10 * acc + (cs[i] - 48))
Atoi(cs) == AtoiFrom(cs, 1, 0)

\* strtoul(tmp, NULL, 16) on one character
HexVal(c) ==
    IF IsDigit(c) THEN c - 48
    ELSE IF c >= 97 /\ c <= 102 THEN c - 87
    ELSE IF c >= 65 /\ c <= 70 THEN c - 55
    ELSE 0

\* "%x" of a value below 16
HexChar(d) == IF d < 10 THEN 48 + d ELSE 87 + d

\* t.unixtime of DS3231_get when the RTC holds the date, hour and minute of
\* T0 and the given second.
UnixOf(sec) == T0 - (T0 % 60) + sec

\* The seconds field of GET /time?YYYYMMDDhhmmss; the other fields are
\* those of T0.  "19", "21", "x5".
SecFields == { << 49, 57 >>, << 50, 49 >>, << 120, 53 >> }
WellFormedSec(f) == Len(f) = 2 /\ IsDigit(f[1]) /\ IsDigit(f[2]) /\ Atoi(f) < 60

\* Clock readings the RTC may show after DS3231_set was given a field that
\* atoi read past: char sec[3] receives two characters and no terminator.
JunkClocks == {UnixOf(50)}

\* "%04d-%02d-%02d %02d:%02d:%02d" of the reading
TimeLine(ut) == << "time", ut >>

\* GET /time?: the fields are copied out of the request, converted by atoi
\* and handed to DS3231_set; the reading of the RTC is sent back.
ReqTimeSet ==
    /\ pc = "idle"
    /\ \E f \in SecFields, junk \in BOOLEAN :
          /\ unixtime' \in (IF junk /\ IsDigit(f[1]) /\ IsDigit(f[2])
                            THEN JunkClocks ELSE {UnixOf(Atoi(f))})
          /\ resp' = [op |-> "timeset", out |-> <<>>, req |-> f,
                      chunks |-> << More("txt_header_200"), More("time updated"),
                                    Final(TimeLine(unixtime')) >>]
    /\ UNCHANGED << storeVars, hdrVars, detVars, pin_change_detect_flag, tick_unserved, irq, ee_busy, pc,
                    seq, commits, resets, faults, last, crash, durable, past, cnl,
                    timer_isr, trace >>

\* GET /time
ReqTimeGet ==
    /\ pc = "idle"
    /\ resp' = [op |-> "time", out |-> <<>>,
                chunks |-> << More("txt_header_200"), Final(TimeLine(unixtime)) >>]
    /\ UNCHANGED << storeVars, unixtime, hdrVars, detVars, pin_change_detect_flag, tick_unserved, irq, ee_busy, pc,
                    seq, commits, resets, faults, last, crash, durable, past, cnl,
                    timer_isr, trace >>

\* sprintf(writebuff, "%40s", c_name): the text right-aligned in 40 bytes.
Pad40(text) == [pad |-> NameWidth - Len(text), fill |-> 32, text |-> text]

\* The 40 bytes of a stored name.
NameBytes(nm) ==
    [i \in 1..NameWidth |-> IF i <= nm.pad THEN nm.fill ELSE nm.text[i - nm.pad]]

\* sprintf(writebuff, "%36sb%xc%x", "", x / 0x10, x % 0x10)
DefaultName(x) == Pad40(<< 98, HexChar(x \div 16), 99, HexChar(x % 16) >>)

\* sprintf(tmpbuff, "b%xc%x %40s", x / 0x10, x % 0x10, writebuff)
NameLine(x, nm) == << 98, HexChar(x \div 16), 99, HexChar(x % 16), 32, nm >>

\* The 32 chunks of the name list; the last one carries the FIN flag.
NameList(names) ==
    [i \in 1..NLines |-> Chunk(NameLine(i - 1, names[i - 1]), i - 1 = NLines - 1)]

\* ee_h.writeBlock(addr, writebuff, 40): below 0x1000 the block is a channel
\* name; from 0x1000 on its first 8 bytes are those of a header slot.
cnl_writeBlock(names, addr, nm) ==
    IF addr \div NameStride < NLines THEN [names EXCEPT ![addr \div NameStride] = nm]
    ELSE names
NameOnSlots(eh, addr, nm) ==
    IF addr \div NameStride < NLines THEN eh
    ELSE ee_h_writeBlock(eh, addr, SubSeq(NameBytes(nm), 1, 8), 8)

\* A request GET /cnl?b<bank>c<pin><name> HTTP/1.x; whole tells whether
\* " HTTP/1." is in the receive buffer.
\* Names of 1, 2, 40 and 41 characters: "A", "AA", "AB...h", "AA...A".
Rep(c, n) == [i \in 1..n |-> c]
Letters(n) == [i \in 1..n |-> 64 + i]
NameTexts == {Rep(65, 1), Rep(65, 2), Letters(NameWidth), Rep(65, NameWidth + 1)}
\* Lines b0c0 and b1cf, and bank digit 2, which the handler does not check.
CnlRequests ==
    [bank : {48}, pin : {48}, name : NameTexts, whole : BOOLEAN]
    \cup [bank : {49}, pin : {102}, name : NameTexts, whole : BOOLEAN]
    \cup [bank : {50}, pin : {48}, name : {Letters(NameWidth)}, whole : {TRUE}]

\* uint8_t end = s.indexOf(" HTTP/1."): 13 + length of the name, or -1 as
\* a uint8_t when the text is not found.
EndOf(r) == IF r.whole THEN (13 + Len(r.name)) % 256 ELSE 255

\* if (end > 14 && end - 13 <= 40)
Accepted(r) == EndOf(r) > 14 /\ EndOf(r) - 13 <= NameWidth

\* An address that leaves the bank out.
CnlAddr_PinOnly(r) == HexVal(r.pin) * NameStride

\* addr = strtoul(bank, 16) * 0x0800 + strtoul(pin, 16) * 0x0080
CnlAddr(r) == HexVal(r.bank) * BankStride + HexVal(r.pin) * NameStride

\* GET /cnl?b: an accepted name is written and the name list is sent; any
\* other request is answered with the 400 response.
CnlSet(r) ==
    /\ pc = "idle"
    /\ IF Accepted(r)
       THEN LET nm == Pad40(SubSeq(r.name, 1, EndOf(r) - 13))
                names == cnl_writeBlock(cnl, CnlAddr(r), nm)
            IN  /\ cnl' = names
                /\ ee_h' = NameOnSlots(ee_h, CnlAddr(r), nm)
                /\ resp' = [op |-> "cnlset", out |-> <<>>, req |-> r,
                            chunks |-> << More("txt_header_200") >> \o NameList(names)]
       ELSE /\ resp' = [op |-> "cnlset", out |-> <<>>, req |-> r,
                        chunks |-> << More("txt_header_400"), Final("txt_body_400") >>]
            /\ UNCHANGED << cnl, ee_h >>
    /\ UNCHANGED << ee_d, unixtime, hdrVars, detVars, pin_change_detect_flag, tick_unserved, irq, ee_busy, pc,
                    seq, commits, resets, faults, last, crash, durable, past,
                    timer_isr, trace >>

\* GET /cnl?reset: the 32 default names are written and the list is sent.
ReqCnlReset ==
    /\ pc = "idle"
    /\ cnl' = [x \in 0..(NLines - 1) |-> DefaultName(x)]
    /\ resp' = [op |-> "cnlreset", out |-> <<>>,
                chunks |-> << More("txt_header_200") >> \o NameList(cnl')]
    /\ UNCHANGED << storeVars, unixtime, hdrVars, detVars, pin_change_detect_flag, tick_unserved, irq, ee_busy, pc,
                    seq, commits, resets, faults, last, crash, durable, past,
                    timer_isr, trace >>

\* GET /cnl: the list is sent.  writebuff[40] is not initialised here, so
\* "%40s" may run on into the bytes that follow the name.
ReqCnl ==
    /\ pc = "idle"
    /\ \E runon \in BOOLEAN :
          resp' = [op |-> "cnl", out |-> <<>>,
                   chunks |-> << More("txt_header_200") >> \o
                       [i \in 1..NLines |->
                           Chunk(IF runon THEN << NameLine(i - 1, cnl[i - 1]), "run-on" >>
                                 ELSE NameLine(i - 1, cnl[i - 1]),
                                 i - 1 = NLines - 1)]]
    /\ UNCHANGED << storeVars, unixtime, hdrVars, detVars, pin_change_detect_flag, tick_unserved, irq, ee_busy, pc,
                    seq, commits, resets, faults, last, crash, durable, past, cnl,
                    timer_isr, trace >>

\* GET /read: the levels of the two banks are sent.
ReqRead ==
    /\ pc = "idle"
    /\ \E g0 \in Samples(0), g1 \in Samples(1) :
          resp' = [op |-> "read", out |-> <<>>,
                   chunks |-> << More("txt_header_200"), More(g0), Final(g1) >>]
    /\ UNCHANGED << storeVars, unixtime, hdrVars, detVars, pin_change_detect_flag, tick_unserved, irq, ee_busy, pc,
                    seq, commits, resets, faults, last, crash, durable, past, cnl,
                    timer_isr, trace >>

\* Any other request: the 404 response.
ReqOther ==
    /\ pc = "idle"
    /\ resp' = [op |-> "other", out |-> <<>>,
                chunks |-> << More("txt_header_404"), Final("txt_body_404") >>]
    /\ UNCHANGED << storeVars, unixtime, hdrVars, detVars, pin_change_detect_flag, tick_unserved, irq, ee_busy, pc,
                    seq, commits, resets, faults, last, crash, durable, past, cnl,
                    timer_isr, trace >>

\* Lines whose name was given by a request.
Named(names) ==
    {x \in 0..(NLines - 1) : names[x] \notin {ErasedName, DefaultName(x)}}

\* GET /cnl?b, for at most MaxNamed lines of the device.
ReqCnlSet ==
    \E r \in CnlRequests :
        /\ Accepted(r) =>
              Cardinality(Named(cnl_writeBlock(cnl, CnlAddr(r), Pad40(r.name)))) <= MaxNamed
        /\ CnlSet(r)

\* ------------------------------------------------------------------------
\* Specification of the clock requests: a formatted device logs changes of
\* line 0 and clears the log while requests set the RTC.
\* ------------------------------------------------------------------------
InitTime == InitWith({FormattedStore})

Detect0U == \E tmpbits \in Samples(0) :
                DetectBank(0, tmpbits, "ok", HwOk, MaxTimeAppends) /\ UNCHANGED trace

Detect1U == \E tmpbits \in Samples(1) :
                DetectBank(1, tmpbits, "ok", HwOk, MaxTimeAppends) /\ UNCHANGED trace

ReqClrU == commits < MaxTimeAppends /\ Clr(HwOk)

NextTime ==
    \/ Setup
    \/ BeatSYS
    \/ Detect0U
    \/ Detect1U
    \/ ReqClrU
    \/ ReqTimeSet
    \/ ReqTimeGet

SpecTime == InitTime /\ [][NextTime]_vars

\* C23: a commit stores the key 0xffffffff - unixtime in its slot, and the
\* key is lower than the key of every slot written before.
C23_KeysDecrease ==
    [][CommitStep =>
          /\ DecodeKey(ee_h_readBlock(ee_h', dh_addr')) = InvTime(unixtime)
          /\ \A x \in DOMAIN ee_h :
                LET old == DecodeKey(ee_h[x])
                    new == DecodeKey(ee_h_readBlock(ee_h', dh_addr'))
                IN  U32Leq(new, old) /\ new # old
      ]_vars

\* ------------------------------------------------------------------------
\* Specification of the request dispatch: a device that starts erased
\* answers requests, no line changes.
\* ------------------------------------------------------------------------
InitReq == InitWith({ErasedStore})

ReqClrQ == commits < MaxReqClears /\ Clr(HwOk)

NextReq ==
    \/ Setup
    \/ ReqClrQ
    \/ ReqDump
    \/ ReqLog
    \/ ReqAddr
    \/ ReqTimeSet
    \/ ReqTimeGet
    \/ ReqCnlSet
    \/ ReqCnlReset
    \/ ReqCnl
    \/ ReqRead
    \/ ReqOther

SpecReq == InitReq /\ [][NextReq]_vars

\* A set-channel-name request that is incomplete or whose name is shorter
\* than 2 or longer than 40 characters.
MalformedCnl(r) == ~r.whole \/ Len(r.name) < 2 \/ Len(r.name) > NameWidth

\* The 400 response.
BadRequest == << More("txt_header_400"), Final("txt_body_400") >>

\* C24: a set-channel-name request with a name of a length outside the
\* accepted range, and a set-time request whose parameter is not a date and
\* time, are answered with the 400 response and change neither the channel
\* names nor the clock.
C24_MalformedRejected ==
    [][((resp'.op = "cnlset" /\ MalformedCnl(resp'.req))
         \/ (resp'.op = "timeset" /\ ~WellFormedSec(resp'.req))) =>
          /\ resp'.chunks = BadRequest
          /\ cnl' = cnl
          /\ unixtime' = unixtime
      ]_vars

\* The status preambles.
Preambles == {"txt_header_200", "txt_header_400", "txt_header_404"}

\* C25: the response to a request starts with the status preamble, sent
\* without the FIN flag, and the FIN flag is carried by exactly one chunk,
\* the last one.
C25_OneFinalChunk ==
    resp.op # "none" =>
        /\ Len(resp.chunks) >= 2
        /\ resp.chunks[1].body \in Preambles
        /\ \A i \in 1..Len(resp.chunks) : resp.chunks[i].fin <=> i = Len(resp.chunks)

\* ------------------------------------------------------------------------
\* Specification of the recent-log read: the lines of bank 0 change, each
\* level held for two polling passes, all 16 together until the log holds
\* as many records as one response carries, line 0 alone afterwards; the
\* recent log is read and the log is cleared between the passes.
\* ------------------------------------------------------------------------
InitLog == InitWith({FormattedStore})

LogSample ==
    IF mcp00_bits # mcp01_bits THEN mcp01_bits
    ELSE IF seq + NPins <= LogChunk + 1 THEN AllHigh - mcp01_bits
    ELSE IF Bit(mcp01_bits, 0) = 1 THEN ClearBit(mcp01_bits, 0)
    ELSE SetBit(mcp01_bits, 0)

Detect0L == DetectBank(0, LogSample, "ok", HwOk, MaxLogAppends) /\ UNCHANGED trace

Detect1L == DetectBank(1, AllHigh, "ok", HwOk, MaxLogAppends) /\ UNCHANGED trace

ReqClrL == commits < MaxLogAppends /\ Clr(HwOk)

NextLog ==
    \/ Setup
    \/ BeatSYS
    \/ Detect0L
    \/ Detect1L
    \/ ReqClrL
    \/ ReqLog

SpecLog == InitLog /\ [][NextLog]_vars

\* C26: the recent-log read reloads the header from the slot under the
\* cursor and, with n = ((newest_addr - oldest_addr) mod 65536) / 64 taken
\* from it, sends min(n, 32) records, the i-th of them being the record of
\* the i-th most recent append; when n = 0 the body is the single line
\* "no data".
C26_RecentLogAtMost32 ==
    resp.op = "log" =>
        LET n == LiveCount(dh) IN
        /\ pc = "idle"
        /\ dh = SlotHeader
        /\ Len(resp.out) = (IF n < LogChunk + 1 THEN n ELSE LogChunk + 1)
        /\ \A i \in 1..Len(resp.out) :
              /\ resp.out[i] = ee_d_readBlock(ee_d, U16(dh.a - RecWidth * i))
              /\ resp.out[i].kind = "rec"
              /\ resp.out[i].seq = seq + 1 - i
        /\ (n = 0 => resp.chunks = << More("txt_header_200"), Final("no data") >>)
        /\ (n > 0 => Len(resp.chunks) = Len(resp.out) + 1)

\* A recent-log read of a log that holds more records than one response
\* carries.
C26_Witness ==
    /\ resp.op = "log"
    /\ LiveCount(dh) > LogChunk + 1
    /\ Len(resp.out) = LogChunk + 1

\* ------------------------------------------------------------------------
\* Specification of the channel names: a formatted device logs changes of
\* line 0 of bank 0 and clears the log while requests name lines, reset the
\* names and list them.
\* ------------------------------------------------------------------------
InitCnl == InitWith({FormattedStore})

NextCnl ==
    \/ Setup
    \/ BeatSYS
    \/ Detect0U
    \/ Detect1U
    \/ ReqClrU
    \/ ReqCnlSet
    \/ ReqCnlReset
    \/ ReqCnl

SpecCnl == InitCnl /\ [][NextCnl]_vars

\* Position of a line in the name list.
LineOf(bank, pin) == bank * NPins + pin

\* Records the step wrote into the log.
NewRecords == {a \in DOMAIN ee_d' : a \notin DOMAIN ee_d \/ ee_d'[a] # ee_d[a]}

\* C27: an accepted set-name request for bank 0 or 1 stores the name, padded
\* to 40 characters, for line bank * 16 + pin and leaves the other 31 names
\* unchanged; the name list of its response carries the name at that
\* position; every event appended afterwards is labelled with the stored
\* name of its line; appends, commits and clears leave the names unchanged.
C27_NameStoredAndUsed ==
    [][/\ (resp'.op = "cnlset" /\ Accepted(resp'.req) /\ resp'.req.bank \in {48, 49}) =>
            LET x == LineOf(HexVal(resp'.req.bank), HexVal(resp'.req.pin))
                nm == Pad40(resp'.req.name)
            IN  /\ cnl'[x] = nm
                /\ \A y \in DOMAIN cnl : y # x => cnl'[y] = cnl[y]
                /\ resp'.chunks[x + 2].body = NameLine(x, nm)
                /\ ee_h' = ee_h
       /\ \A a \in NewRecords :
             /\ ee_d'[a].kind = "rec"
             /\ ee_d'[a].name = cnl[LineOf(ee_d'[a].bank, ee_d'[a].pin)]
       /\ (resp'.op \notin {"cnlset", "cnlreset"} => cnl' = cnl)
      ]_vars

\* Line 0 of bank 0 carries a name given by a request and the newest record
\* of the log carries that name.
C27_Witness ==
    /\ resp.op = "none"
    /\ 0 \in Named(cnl)
    /\ last.op = "detect"
    /\ last.data.name = cnl[0]
    /\ commits > seq

\* ------------------------------------------------------------------------
\* Specification of the polling loop: the timer interrupt fires between the
\* passes and inside them.
\* ------------------------------------------------------------------------
NextPoll ==
    \/ Setup
    \/ BeatSYS
    \/ BeatSYSInPass
    \/ Detect0D
    \/ Detect1D

SpecPoll == Init /\ [][NextPoll]_vars

\* C28: a tick that set pin_change_detect_flag and that no detection pass
\* has started after keeps the flag set, so that a pass starts after it: the
\* clearing of the flag at the end of a pass does not erase a tick raised
\* during the pass.
C28_TickKeepsFlag ==
    tick_unserved => pin_change_detect_flag = 1

\* ------------------------------------------------------------------------
\* Interrupt-driven revision: each expander signals a line change on its INT
\* line (active low), the pin-change ISR of the AVR sets the flag of the
\* bank and loop() calls handleInterrupt for a bank whose flag is set.
\* ------------------------------------------------------------------------
\* PIND: the INT line of a bank is low while its expander holds an
\* interrupt.
PIND(q) == [b \in 0..1 |-> IF q.cap[b].some THEN 0 ELSE 1]

\* ISR(PCINT2_vect): a falling edge on the INT line of a bank sets its flag.
ISR_PCINT2(q) ==
    LET pind == PIND(q)
        falling == [b \in 0..1 |-> pind[b] # q.portdhistory[b] /\ pind[b] = 0]
    IN  [q EXCEPT !.portdhistory = pind,
                  !.awakenByInterrupt = [b \in 0..1 |-> falling[b] \/ @[b]],
                  !.raised = @ \/ (q.pos # "loop" /\ falling[q.bank])]

\* The value getLastInterruptPin() and getLastInterruptPinValue() return
\* when the expander holds no interrupt (MCP23017_INT_ERR).
IntErr == 255

\* The 40 bytes handleInterrupt reads as the name: for the pin number 255
\* the address lies among the header slots.
IntName(m, bank, pin) ==
    IF NameAddr(bank, pin) \div NameStride < NLines
    THEN cnl_readBlock(m.cnl, NameAddr(bank, pin))
    ELSE [pad |-> 0, fill |-> 255,
          text |-> ee_h_readBlock(m.ee_h, NameAddr(bank, pin)) \o Rep(255, NameWidth - 8)]

\* A line of a bank changes: the expander, which holds no interrupt,
\* captures the pin and its level and pulls its INT line low; the ISR runs.
PinChange ==
    /\ pc = "idle"
    /\ irq.n < MaxIrqs
    /\ \E b \in 0..1, pin \in {0, NPins - 1}, val \in 0..1 :
          /\ ~irq.cap[b].some
          /\ irq' = ISR_PCINT2([irq EXCEPT !.cap[b] = [some |-> TRUE, pin |-> pin, val |-> val],
                                           !.n = @ + 1])
    /\ resp' = NoResp
    /\ UNCHANGED << storeVars, unixtime, hdrVars, detVars, pin_change_detect_flag,
                    tick_unserved, ee_busy, pc, seq, commits, resets, faults, last, crash,
                    durable, past, cnl, timer_isr, trace >>

\* loop() finds the flag of a bank set and calls handleInterrupt, which
\* reads the pin and the level the expander captured; the reads release the
\* INT line.
HandleEnter ==
    /\ pc = "idle"
    /\ irq.pos = "loop"
    /\ \E b \in 0..1 :
          /\ irq.awakenByInterrupt[b]
          /\ irq' = ISR_PCINT2([irq EXCEPT
                         !.pos = "record", !.bank = b, !.raised = FALSE,
                         !.pin = IF irq.cap[b].some THEN irq.cap[b].pin ELSE IntErr,
                         !.val = IF irq.cap[b].some THEN irq.cap[b].val ELSE IntErr,
                         !.cap[b] = NoCapture])
    /\ resp' = NoResp
    /\ UNCHANGED << storeVars, unixtime, hdrVars, detVars, pin_change_detect_flag,
                    tick_unserved, ee_busy, pc, seq, commits, resets, faults, last, crash,
                    durable, past, cnl, timer_isr, trace >>

\* handleInterrupt: the name of the line is read and the record is appended.
HandleRecord ==
    /\ pc = "idle"
    /\ irq.pos = "record"
    /\ LET m0 == Mach(irq.bank)
           data == [kind |-> "rec", time |-> unixtime, bank |-> irq.bank, pin |-> irq.pin,
                    name |-> IntName(m0, irq.bank, irq.pin),
                    on |-> (irq.val # 0), seq |-> seq + 1]
           m == record_data_page_write_mode([m0 EXCEPT !.data = data], data, "ok", HwOk)
       IN  /\ ee_h' = m.ee_h /\ ee_d' = m.ee_d
           /\ dh' = m.dh /\ dh_addr' = m.dh_addr
           /\ seq' = m.seq /\ commits' = m.commits
           /\ durable' = Durable(m.dh_addr, m.dh)
           /\ last' = OpRecord("interrupt", m, SlotHeader, "ok", HwOk)
    /\ irq' = [irq EXCEPT !.pos = "clear"]
    /\ resp' = NoResp
    /\ UNCHANGED << unixtime, detVars, pin_change_detect_flag, tick_unserved, ee_busy, pc,
                    resets, faults, crash, past, cnl, timer_isr, trace >>

\* handleInterrupt: *awakenByInterrupt = false
HandleClear ==
    /\ pc = "idle"
    /\ irq.pos = "clear"
    /\ irq' = [irq EXCEPT !.pos = "gpio", !.awakenByInterrupt[irq.bank] = FALSE]
    /\ resp' = NoResp
    /\ UNCHANGED << storeVars, unixtime, hdrVars, detVars, pin_change_detect_flag,
                    tick_unserved, ee_busy, pc, seq, commits, resets, faults, last, crash,
                    durable, past, cnl, timer_isr, trace >>

\* handleInterrupt: mcp->readGPIOAB() releases the INT line whatever the
\* expander holds, and the function returns.
HandleReturn ==
    /\ pc = "idle"
    /\ irq.pos = "gpio"
    /\ irq' = ISR_PCINT2([irq EXCEPT !.pos = "loop", !.cap[irq.bank] = NoCapture])
    /\ resp' = NoResp
    /\ UNCHANGED << storeVars, unixtime, hdrVars, detVars, pin_change_detect_flag,
                    tick_unserved, ee_busy, pc, seq, commits, resets, faults, last, crash,
                    durable, past, cnl, timer_isr, trace >>

NextInt ==
    \/ Setup
    \/ PinChange
    \/ HandleEnter
    \/ HandleRecord
    \/ HandleClear
    \/ HandleReturn

SpecInt == Init /\ [][NextInt]_vars

\* C29: when the ISR has set the flag of a bank while handleInterrupt for
\* that bank was executing, the flag is set when handleInterrupt returns.
C29_FlagSurvivesHandler ==
    [][(irq.pos = "gpio" /\ irq'.pos = "loop" /\ irq.raised) =>
          irq'.awakenByInterrupt[irq.bank]]_vars

\* The line p fires in a pass: the current sample equals the previous one
\* and differs from the sample of two passes ago and from the settled level.
Fires(two, prev, cur, settled, p) ==
    /\ Bit(cur, p) = Bit(prev, p)
    /\ Bit(cur, p) # Bit(two, p)
    /\ Bit(cur, p) # Bit(settled, p)

\* What a pass over a bank with the samples two, prev and cur does: the
\* settled level of a line that fires becomes the current level, one record
\* with that level is appended for it, and nothing else changes or is
\* appended.
PassEffect(bank, two, prev, cur, settled, settledAfter) ==
    /\ \A p \in 0..(NPins - 1) :
          Bit(settledAfter, p) = IF Fires(two, prev, cur, settled, p)
                                 THEN Bit(cur, p) ELSE Bit(settled, p)
    /\ {<< ee_d'[a].bank, ee_d'[a].pin, ee_d'[a].on >> : a \in NewRecords}
          = {<< bank, p, Bit(cur, p) = 1 >> :
                p \in {q \in 0..(NPins - 1) : Fires(two, prev, cur, settled, q)}}
    /\ seq' - seq = Cardinality({q \in 0..(NPins - 1) : Fires(two, prev, cur, settled, q)})

\* C30: a polling pass emits an event for a line exactly when the current
\* sample equals the previous sample, differs from the sample of two passes
\* ago and differs from the settled level; the event carries the current
\* level and the settled level becomes that level; for every other line the
\* settled level is unchanged and nothing is appended.
C30_EventExactlyWhenSettled ==
    [][/\ (pc = "idle" /\ pc' = "det1") =>
            PassEffect(0, mcp00_bits, mcp01_bits, mcp01_bits',
                       mcp0_settled_bits, mcp0_settled_bits')
       /\ (pc = "det1" /\ pc' = "idle") =>
            PassEffect(1, mcp10_bits, mcp11_bits, mcp11_bits',
                       mcp1_settled_bits, mcp1_settled_bits')
      ]_vars

\* A pass over bank 0 has just emitted the events of lines 0 and 1, both
\* settling low.
C30_Witness ==
    /\ pc = "det1"
    /\ last.op = "detect" /\ last.n = 2
    /\ seq = 2
    /\ mcp0_settled_bits = AllHigh - 3

\* ------------------------------------------------------------------------
\* Specification of the slot image: write_data_header is applied to headers
\* whose newest_addr and oldest_addr are drawn from Fields16, at a clock
\* drawn from CodecClocks, and read_data_header reads the slot back.
\* ------------------------------------------------------------------------
Fields16 == {0, RecWidth, 255, 256, 43981, AddrSpace - 1}
CodecClocks == {0, 255, 65536, T0, 2147483647}

InitCodec == InitAt({FormattedStore}, CodecClocks)

HdrWrite ==
    /\ pc = "idle"
    /\ commits < MaxCodecWrites
    /\ \E a \in Fields16, b \in Fields16 :
          LET m == write_data_header([Mach(0) EXCEPT !.dh = [dh EXCEPT !.a = a, !.b = b]], HwOk)
          IN  /\ ee_h' = m.ee_h
              /\ dh' = m.dh
              /\ dh_addr' = m.dh_addr
              /\ commits' = m.commits
              /\ durable' = Durable(m.dh_addr, m.dh)
              /\ last' = [NoOp EXCEPT !.op = "write", !.pre = m.dh]
    /\ resp' = NoResp
    /\ UNCHANGED << ee_d, unixtime, detVars, pin_change_detect_flag, tick_unserved, irq, ee_busy, pc,
                    seq, resets, faults, crash, past, cnl, timer_isr, trace >>

HdrRead ==
    /\ pc = "idle"
    /\ last.op = "write"
    /\ dh' = read_data_header(Mach(0)).dh
    /\ last' = [last EXCEPT !.op = "read"]
    /\ resp' = NoResp
    /\ UNCHANGED << storeVars, unixtime, dh_addr, detVars, pin_change_detect_flag,
                    tick_unserved, irq, ee_busy, pc, seq, commits, resets, faults, crash, durable,
                    past, cnl, timer_isr, trace >>

NextCodec ==
    \/ Setup
    \/ HdrWrite
    \/ HdrRead

SpecCodec == InitCodec /\ [][NextCodec]_vars

\* C31: read_data_header applied to the slot a completed write_data_header
\* has just written returns the key, newest_addr and oldest_addr that were
\* written; the slot holds the key in bytes 0-3, newest_addr in bytes 4-5
\* and oldest_addr in bytes 6-7, each low byte first.
C31_SlotImageRoundTrip ==
    last.op = "read" =>
        LET blk == ee_h_readBlock(ee_h, dh_addr) IN
        /\ dh = last.pre
        /\ dh.t = InvTime(unixtime)
        /\ \A i \in 1..8 : blk[i] \in 0..255
        /\ blk[1] + 256 * blk[2] = last.pre.t.lo
        /\ blk[3] + 256 * blk[4] = last.pre.t.hi
        /\ blk[5] + 256 * blk[6] = last.pre.a
        /\ blk[7] + 256 * blk[8] = last.pre.b

\* A header whose bounds have distinct low and high bytes was written at a
\* clock of 0x00010000 and read back.
C31_Witness ==
    /\ last.op = "read"
    /\ dh.a = 43981 /\ dh.b = 255
    /\ unixtime = 65536

\* Start addresses of the records the header h advertises: the
\* ((newest_addr - oldest_addr) mod 65536) / 64 records below newest_addr.
LiveAddrs(h) == {U16(h.a - RecWidth * i) : i \in 1..LiveCount(h)}

\* C32: an append writes its 64 bytes outside the records advertised by the
\* header committed before it: whether its header commit follows or power
\* is lost first, every record that header advertises reads as before.
C32_AppendSparesLiveRecords ==
    [][seq' = seq + 1 =>
          \A y \in LiveAddrs(SlotHeader) :
              ee_d_readBlock(ee_d', y) = ee_d_readBlock(ee_d, y)]_vars

\* An append into a full ring: the header committed before it advertised
\* capacity - 1 records.
C32_Witness ==
    /\ last.op = "detect"
    /\ LiveCount(last.pre) = Capacity - 1
    /\ LiveCount(dh) = Capacity - 1
    /\ seq > Capacity

\* C33: a set-channel-name request that passes the length check writes
\* inside the channel-name area only, whatever bank digit and pin digit it
\* carries: no header slot changes, so the header under the cursor reads as
\* before.
C33_RenameSparesSlots ==
    [][(resp'.op = "cnlset" /\ Accepted(resp'.req)) =>
          /\ CnlAddr(resp'.req) + NameWidth <= SlotStop + SlotStride
          /\ ee_h' = ee_h
          /\ SlotHeaderNext = SlotHeader]_vars

\* C34: in every state newest_addr and oldest_addr are multiples of the
\* record width and every record of the log device starts at a multiple of
\* the record width, whatever the header device held at the start.
C34_BoundsAligned ==
    /\ dh.a % RecWidth = 0
    /\ dh.b % RecWidth = 0
    /\ \A y \in DOMAIN ee_d : y % RecWidth = 0

\* The settled bits of a bank agree with its history: a line whose two most
\* recent samples are equal is settled at their level.
SettledInStep(former, recent, settled) ==
    \A p \in 0..(NPins - 1) :
        Bit(former, p) = Bit(recent, p) => Bit(settled, p) = Bit(recent, p)

\* C35: after every polling pass and for every line, if the two most recent
\* samples of the line are equal then the settled bit of the line has that
\* value.
C35_SettledFollowsStableLevel ==
    /\ SettledInStep(mcp00_bits, mcp01_bits, mcp0_settled_bits)
    /\ SettledInStep(mcp10_bits, mcp11_bits, mcp1_settled_bits)

\* Line 0 has been low for two polling passes and is settled low, line 1
\* was sampled low, then high.
C35_Witness ==
    /\ pc = "det1"
    /\ Len(trace.samples) >= 2
    /\ Bit(mcp00_bits, 0) = 0 /\ Bit(mcp01_bits, 0) = 0 /\ Bit(mcp0_settled_bits, 0) = 0
    /\ Bit(mcp00_bits, 1) = 0 /\ Bit(mcp01_bits, 1) = 1

\* ------------------------------------------------------------------------
\* Specification of polling passes over two moving banks: lines 0 and 1 of
\* both banks take any level.
\* ------------------------------------------------------------------------
MaxBankAppends == 3

Detect0B ==
    \E tmpbits \in DetSamples :
        DetectBank(0, tmpbits, "ok", HwOk, MaxBankAppends) /\ UNCHANGED trace

Detect1B ==
    \E tmpbits \in DetSamples :
        DetectBank(1, tmpbits, "ok", HwOk, MaxBankAppends) /\ UNCHANGED trace

NextBanks ==
    \/ Setup
    \/ BeatSYS
    \/ Detect0B
    \/ Detect1B

SpecBanks == Init /\ [][NextBanks]_vars

\* The lines of a bank whose event the step appended to the log.
EventLines(bank) ==
    {ee_d'[a].pin : a \in {x \in NewRecords : ee_d'[x].kind = "rec" /\ ee_d'[x].bank = bank}}

\* The settled bits change from settled to settledAfter only on lines whose
\* event the step appended.
SettledOnlyWithEvent(bank, settled, settledAfter) ==
    \A p \in 0..(NPins - 1) :
        Bit(settledAfter, p) # Bit(settled, p) => p \in EventLines(bank)

\* C36: a detection pass for one bank leaves the former history, the recent
\* history and the settled bits of the other bank unchanged, and within its
\* own bank changes the settled bit only of the lines it emits an event for.
C36_PassTouchesOwnBankOnly ==
    [][/\ (pc = "idle" /\ pc' = "det1") =>
            /\ UNCHANGED << mcp10_bits, mcp11_bits, mcp1_settled_bits >>
            /\ SettledOnlyWithEvent(0, mcp0_settled_bits, mcp0_settled_bits')
       /\ (pc = "det1" /\ pc' = "idle") =>
            /\ UNCHANGED << mcp00_bits, mcp01_bits, mcp0_settled_bits >>
            /\ SettledOnlyWithEvent(1, mcp1_settled_bits, mcp1_settled_bits')
      ]_vars

\* A pass over bank 1 has just settled its line 0 low while line 1 of bank 0
\* is settled low and line 0 of bank 0 was sampled low once.
C36_Witness ==
    /\ pc = "idle"
    /\ last.op = "detect"
    /\ mcp1_settled_bits = AllHigh - 1
    /\ mcp0_settled_bits = AllHigh - 2
    /\ mcp01_bits = AllHigh - 3
    /\ mcp00_bits = AllHigh - 2

\* A step that answers a request that only reads.
ReadOps == {"dump", "log", "addr", "cnl", "time", "read"}
ReadRequestStep ==
    /\ resp'.op \in ReadOps
    /\ pc = "idle" /\ pc' \in {"idle", "hung"}
    /\ UNCHANGED << seq, commits, faults, resets, unixtime, pin_change_detect_flag, irq >>

\* C37: a request that only reads (read log, full dump, header address,
\* channel-name list, read time, raw bank bitsets) leaves the header slots,
\* the slot cursor, the in-memory newest_addr and oldest_addr, the log
\* region, the channel names and the history and settled bits of the
\* detector unchanged.
C37_ReadsChangeNothing ==
    [][ReadRequestStep =>
          /\ UNCHANGED << ee_h, dh_addr, ee_d, cnl, detVars >>
          /\ AB(dh') = AB(dh)
      ]_vars

\* ------------------------------------------------------------------------
\* Revision guarded by ee_busy: record_data_page_write_mode and clear_logs
\* return at once when the flag is set, and set it while they run.  A call
\* is split where the flag has just been set, the point at which a second
\* call finds an operation in flight.
\* ------------------------------------------------------------------------
MaxBusyOps == 3

\* The machine record with the flag and the value the call returns.
MachBusy == Mach(0) @@ [ee_busy |-> ee_busy, ret |-> 1]

\* An append without the test of the flag.
record_data_page_write_mode_busy_NoGuard(m, data) ==
    LET m1 == record_data_page_write_mode([m EXCEPT !.ee_busy = 1, !.data = data],
                                          data, "ok", HwOk)
    IN  [m1 EXCEPT !.ee_busy = 0, !.ret = 1]

\* record_data_page_write_mode(data) of the guarded revision.
record_data_page_write_mode_busy(m, data) ==
    IF m.ee_busy # 0 THEN [m EXCEPT !.ret = 0]
    ELSE LET m1 == record_data_page_write_mode([m EXCEPT !.ee_busy = 1, !.data = data],
                                               data, "ok", HwOk)
         IN  [m1 EXCEPT !.ee_busy = 0, !.ret = 1]

\* clear_logs() of the guarded revision.
clear_logs_busy(m) ==
    IF m.ee_busy # 0 THEN m
    ELSE LET m1 == write_data_header([m EXCEPT !.ee_busy = 1,
                                               !.dh = ClearedHeader(m.dh)], HwOk)
         IN  [m1 EXCEPT !.ee_busy = 0]

\* The state after a call that ended in the machine record m.
BusyResult(op, m) ==
    /\ ee_h' = m.ee_h /\ ee_d' = m.ee_d
    /\ dh' = m.dh /\ dh_addr' = m.dh_addr
    /\ seq' = m.seq /\ commits' = m.commits
    /\ ee_busy' = m.ee_busy
    /\ durable' = IF m.commits > commits THEN Durable(m.dh_addr, m.dh) ELSE durable
    /\ last' = [NoOp EXCEPT !.op = op, !.n = m.ret, !.pre = dh, !.data = m.data,
                            !.prevop = last.op]
    /\ resp' = NoResp
    /\ UNCHANGED << unixtime, detVars, pin_change_detect_flag, tick_unserved, irq,
                    resets, faults, crash, past, cnl, timer_isr, trace >>

\* Records handed to the appends of this specification.
BusyData == {EventRec(Mach(0), 0, 0, val) : val \in 0..1}

\* A call enters with the flag clear: if (ee_busy) return 0; ee_busy = 1;
BusyEnter(op) ==
    /\ pc = "idle"
    /\ ee_busy = 0
    /\ commits < MaxBusyOps
    /\ ee_busy' = 1
    /\ pc' = op
    /\ resp' = NoResp
    /\ UNCHANGED << storeVars, unixtime, hdrVars, detVars, pin_change_detect_flag,
                    tick_unserved, irq, seq, commits, resets, faults, last, crash,
                    durable, past, cnl, timer_isr, trace >>

AppendEnter == BusyEnter("append")

ClearEnter == BusyEnter("clear")

\* The rest of the append that holds the flag, up to its return.
AppendReturn ==
    /\ pc = "append"
    /\ \E data \in BusyData :
          BusyResult("append", record_data_page_write_mode_busy(
                                   [MachBusy EXCEPT !.ee_busy = 0], data))
    /\ pc' = "idle"

\* The rest of the clear that holds the flag, up to its return.
ClearReturn ==
    /\ pc = "clear"
    /\ BusyResult("clr", clear_logs_busy([MachBusy EXCEPT !.ee_busy = 0]))
    /\ pc' = "idle"

\* An append is called while an append or a clear holds the flag.
AppendWhileBusy ==
    /\ pc \in {"append", "clear"}
    /\ \E data \in BusyData :
          BusyResult("busy", record_data_page_write_mode_busy(MachBusy, data))
    /\ UNCHANGED pc

\* A clear is called while an append or a clear holds the flag.
ClearWhileBusy ==
    /\ pc \in {"append", "clear"}
    /\ BusyResult("busyclr", clear_logs_busy(MachBusy))
    /\ UNCHANGED pc

InitBusy == InitWith({FormattedStore})

NextBusy ==
    \/ Setup
    \/ AppendEnter
    \/ AppendReturn
    \/ ClearEnter
    \/ ClearReturn
    \/ AppendWhileBusy
    \/ ClearWhileBusy

SpecBusy == InitBusy /\ [][NextBusy]_vars

\* C38: in the revision guarded by ee_busy, an append attempted while
\* ee_busy is set returns 0 and leaves the header, the slot cursor and the
\* log unchanged, and an append or a clear entered with the flag clear
\* returns with the flag clear: the flag is never set between two
\* operations of the control loop.
C38_BusyGuard ==
    [][/\ (ee_busy = 1 /\ last'.op = "busy") =>
            /\ last'.n = 0
            /\ UNCHANGED << ee_h, dh_addr, dh, ee_d, seq, commits >>
       /\ (ee_busy = 0 /\ pc' \in {"append", "clear"}) => ee_busy' = 1
       /\ pc' \notin {"append", "clear"} => ee_busy' = 0
      ]_vars

\* An append was refused while the second append of the run held the flag.
C38_Witness ==
    /\ pc = "append"
    /\ ee_busy = 1
    /\ last.op = "busy" /\ last.n = 0
    /\ seq = 1
====
